---- MODULE Spec2Model ----
(***************************************************************************)
(* Snippet dependency and usage analyzer                                   *)
(* (docs/v3/scripts/analyze_snippet_usage_updated.py).                      *)
(*                                                                         *)
(* A run of analyze_schemas is modelled as a state machine over a fixed    *)
(* file tree: the snippet files are scanned into the dependency graph and  *)
(* the category map, the source schemas are scanned into the set of        *)
(* directly used snippets, the two fixed-point loops run pass by pass, and *)
(* the orphans are computed.  The order in which files are scanned and in  *)
(* which a pass visits its (snippet, referenced) pairs is chosen freely.   *)
(***************************************************************************)
EXTENDS Integers, Sequences, FiniteSets, TLC

(***************************************************************************)
(* Bounds of the model.                                                    *)
(***************************************************************************)
\* at most this many snippet files in the tree
MaxSnippetFiles == 4
\* at most this many snippet references in all snippet files together
MaxEdges == 3
\* at most this many snippet references in all source schemas together
MaxSourceRefs == 2

\* file name stems that occur in the trees
Names == {"A", "B", "F", "G"}

\* the snippet files a tree may hold: [dirs |-> directories below
\* schemas/snippets, stem |-> file name without .json]
SnippetPool ==
    { [dirs |-> <<"types">>,  stem |-> "A"],
      [dirs |-> <<"types">>,  stem |-> "B"],
      [dirs |-> <<>>,         stem |-> "B"],
      [dirs |-> <<"fields">>, stem |-> "F"],
      [dirs |-> <<"fields">>, stem |-> "G"],
      [dirs |-> <<"types">>,  stem |-> "G"] }

\* the snippet-to-snippet references a tree may hold: <<stem of the
\* referencing file, referenced name>>
EdgePool ==
    { <<"A", "B">>, <<"B", "A">>, <<"A", "F">>, <<"B", "G">>, <<"F", "G">>,
      <<"B", "B">> }

\* the source schema files of a tree (outside snippets/ and assembled/)
SourcePool == {"entities/Thing", "events/Happening"}

\* the references the source schemas may hold: <<source file, referenced name>>
SourceRefPool ==
    { <<"entities/Thing", "A">>, <<"entities/Thing", "G">>,
      <<"events/Happening", "F">> }

\* the value of dict.get(key) for a missing key, and of a function that
\* returns None
None == "None"

\* at most this many files of a tree fail to load
MaxLoadErrors == 1

\* what open() and json.load() do on a file: the content is returned, or one
\* of these exceptions is raised
LoadOutcomes ==
    { "ok", "JSONDecodeError", "FileNotFoundError", "UnicodeDecodeError",
      "PermissionError" }

\* the snippet files and references of the trees whose files may fail to load
LoadSnippetPool ==
    { [dirs |-> <<"types">>,  stem |-> "A"],
      [dirs |-> <<"fields">>, stem |-> "F"] }

LoadEdgePool == { <<"A", "B">>, <<"A", "F">> }

\* the *.json files a schemas/ directory may hold: the directories below
\* schemas/ followed by the file name without .json
PathPool ==
    { <<"entities", "Thing">>,
      <<"Root">>,
      <<"snippets", "types", "A">>,
      <<"snippets", "F">>,
      <<"snippets", "assembled", "A">>,
      <<"assembled", "entities", "Thing">>,
      <<"assembled", "snippets", "types", "A">>,
      <<"entities", "snippets", "X">>,
      <<"entities", "ReassembledThing">>,
      <<"events", "snippets_index">> }

\* the path segments that hold a word without being it
SubstringPool ==
    { <<"ReassembledThing", "assembled">>, <<"snippets_index", "snippets">>,
      <<"my_snippets", "snippets">> }

(***************************************************************************)
(* Bounds and pools of the recursive schema build                          *)
(* (docs/v3/scripts/recursive_schema_build.py).                            *)
(***************************************************************************)
\* at most this many files below the schemas directory of a build
MaxBuildFiles == 3
\* at most this many $refs in all those files together
MaxBuildRefs == 2

\* the files a schemas directory may hold
BuildPool ==
    { [dir |-> "snippets/types/primitives", file |-> "Id.json"],
      [dir |-> "snippets/types/primitives", file |-> "Timestamp.json"],
      [dir |-> "snippets/types/physics",    file |-> "Vec3.json"],
      [dir |-> "snippets/types/physics",    file |-> "DensityMatrix.json"],
      [dir |-> "snippets/types/physics",    file |-> "Other.json"],
      [dir |-> "snippets/fields",           file |-> "Vec3.json"],
      [dir |-> "snippets/fields",           file |-> "Name.json"],
      [dir |-> "components",                file |-> "Body.schema.json"],
      [dir |-> "entities",                  file |-> "Thing.schema.json"],
      [dir |-> "entities",                  file |-> "Loose.json"] }

\* the $refs those files may hold: <<name of the referencing file, last path
\* component of the $ref>>
BuildRefPool ==
    { <<"Id.json", "Timestamp.json">>,
      <<"Vec3.json", "DensityMatrix.json">>,
      <<"DensityMatrix.json", "Vec3.json">>,
      <<"Name.json", "Body.schema.json">>,
      <<"Body.schema.json", "Name.json">>,
      <<"Thing.schema.json", "Body.schema.json">> }

\* the file names that end with .schema.json
SchemaJsonFiles == { "Body.schema.json", "Thing.schema.json" }

\* _get_schema_name: file name -> name without its extensions
SchemaNamePool ==
    { <<"Id.json", "Id">>, <<"Timestamp.json", "Timestamp">>,
      <<"Vec3.json", "Vec3">>, <<"DensityMatrix.json", "DensityMatrix">>,
      <<"Other.json", "Other">>, <<"Name.json", "Name">>,
      <<"Body.schema.json", "Body">>, <<"Thing.schema.json", "Thing">>,
      <<"Loose.json", "Loose">> }

\* _extract_refs: last path component of a $ref -> the same without ".json"
RefNamePool ==
    { <<"Timestamp.json", "Timestamp">>, <<"Vec3.json", "Vec3">>,
      <<"DensityMatrix.json", "DensityMatrix">>, <<"Name.json", "Name">>,
      <<"Body.schema.json", "Body.schema">> }

(***************************************************************************)
(* Bounds and pools of the Fates pipeline                                  *)
(* (docs/v4/services/windmill/wmill_sync_familiar/f/agentic).              *)
(***************************************************************************)
\* at most this many fragments in a user message
MaxFragments == 2
\* at most this many tool calls handed to aggregate_weave_from_tool_results
MaxToolResults == 2

\* the pieces a user message is made of, as typed; no pattern of
\* detect_intent lies across two pieces
FragmentPool == { "What", "?", "Add", "sunset", "Yesterday", "I went", "hello" }

\* str.lower() on the pieces that change under it
LowerPool ==
    { <<"What", "what">>, <<"Add", "add">>, <<"Yesterday", "yesterday">>,
      <<"I went", "i went">>, <<"QUERY", "query">>, <<"COMMAND", "command">>,
      <<"LOG", "log">> }

\* the lowered pieces that hold a pattern without being it
OccursPool == { <<"set", "sunset">> }

\* the conversations a state may arrive with
ContextPool ==
    { << >>,
      << [role |-> "user", content |-> {"hello"}, speaker |-> "None"],
         [role |-> "assistant", content |-> {"hello"}, speaker |-> "None"] >> }

\* the tool calls aggregate_weave_from_tool_results may be handed: the result
\* is a dict (body), no result, or a text
ToolCallPool ==
    { [tool |-> "classifier",
       result |-> [kind |-> "dict",
                   body |-> [classifications |->
                                << [entity_type |-> "TASK", probability |-> 90] >>,
                             intent |-> "COMMAND"]]],
      [tool |-> "decima_classify",
       result |-> [kind |-> "dict",
                   body |-> [classifications |->
                                << [type |-> "NOTE", confidence |-> 60],
                                   [entity_type |-> "MOMENT"] >>]]],
      [tool |-> "decima_classify",
       result |-> [kind |-> "dict", body |-> [intent |-> "LOG"]]],
      [tool |-> "physics",
       result |-> [kind |-> "dict", body |-> [valence |-> 50, clarity |-> 20]]],
      [tool |-> "classifier", result |-> [kind |-> "none", body |-> << >>]],
      [tool |-> "classifier", result |-> [kind |-> "dict", body |-> << >>]],
      [tool |-> "rag_search", result |-> [kind |-> "text", body |-> << >>]] }

(***************************************************************************)
(* Bounds and pools of the reference extraction of the analyzer            *)
(* (find_snippet_references and the loops of analyze_schemas that call     *)
(* it).  A JSON value is a record: kind "dict" with items a sequence of    *)
(* <<key, value>> in insertion order, kind "list" with items a sequence of *)
(* values, kind "str" with text the string, kind "num".  The string of a   *)
(* $ref is the sequence of its pieces between the "/".                     *)
(***************************************************************************)
\* at most this many *.json files below schemas/
MaxDocFiles == 3

JStr(text) == [kind |-> "str", text |-> text, items |-> << >>]

JNum == [kind |-> "num", text |-> << >>, items |-> << >>]

JDict(items) == [kind |-> "dict", text |-> << >>, items |-> items]

JList(items) == [kind |-> "list", text |-> << >>, items |-> items]

\* the strings of the $refs
RefTypesA == << "..", "snippets", "types", "A.json" >>

RefFieldsF == << "snippets", "fields", "F.json" >>

RefMySnippetsG == << "my_snippets", "G.json" >>

RefDotB == << ".", "B.json" >>

RefDotDotF == << "..", "fields", "F.json" >>

RefInternal == << "#", "definitions", "X" >>

RefBare == << "B.json" >>

\* the contents a *.json file may hold
DocPool ==
    << JDict(<< >>),
       JDict(<< <<"$ref", JStr(RefTypesA)>> >>),
       JDict(<< <<"properties",
                  JDict(<< <<"name", JDict(<< <<"$ref", JStr(RefDotB)>> >>)>>,
                           <<"kind", JDict(<< <<"$ref", JStr(RefInternal)>> >>)>> >>)>> >>),
       JDict(<< <<"allOf",
                  JList(<< JDict(<< <<"$ref", JStr(RefFieldsF)>> >>),
                           JDict(<< <<"$ref", JStr(RefDotDotF)>> >>) >>)>> >>),
       JDict(<< <<"$ref", JDict(<< <<"$ref", JStr(RefMySnippetsG)>> >>)>>,
                <<"title", JStr(<<"Thing">>)>> >>),
       JDict(<< <<"$ref", JNum>>,
                <<"items", JDict(<< <<"$ref", JStr(RefBare)>> >>)>> >>),
       JDict(<< <<"properties",
                  JDict(<< <<"a", JDict(<< <<"$ref", JStr(RefTypesA)>> >>)>>,
                           <<"b", JDict(<< <<"$ref", JStr(RefTypesA)>> >>)>> >>)>> >>) >>

\* the *.json files below schemas/ of these runs
DocPathPool ==
    { <<"snippets", "types", "A">>,
      <<"snippets", "fields", "F">>,
      <<"snippets", "B">>,
      <<"entities", "Thing">>,
      <<"Root">>,
      <<"events", "snippets_index">> }

\* Path(value).stem of the last piece of a $ref string
StemPool ==
    { <<"A.json", "A">>, <<"F.json", "F">>, <<"G.json", "G">>,
      <<"B.json", "B">>, <<"X", "X">> }

\* f"[{i}]" for the positions of a list
IndexPool == << "[0]", "[1]", "[2]" >>

VARIABLES
    snippetTree,      \* the snippet files on disk
    snippetRefs,      \* snippet file -> the snippet names its $refs point to
    sourceRefs,       \* source schema file -> the snippet names it references
    pc,               \* position of the run
    snippet_deps,     \* analyze_schemas: snippet -> set of snippets it references
    snippet_categories,      \* snippet name -> "field" / "type" / "other"
    all_snippets,            \* set(scanned_snippets.keys())
    direct_used_snippets,
    used_snippets,           \* find_transitive_type_usage locals
    transitive_types,
    changed,
    all_used_snippets,       \* results bound in analyze_schemas
    all_reachable,           \* find_transitive_field_issues locals
    transitive_field_issues,
    orphaned_snippets,
    type_passes,             \* passes of the while loop of find_transitive_type_usage
    field_passes,            \* passes of the while loop of find_transitive_field_issues
    snippetLoad,      \* snippet file -> what loading it does
    sourceLoad,       \* source schema file -> what loading it does
    failure,          \* __main__: where the exception was raised, "none" if none
    logged,           \* __main__: "Analysis failed" and the traceback are printed
    report_file,      \* SNIPPET_ANALYSIS_REPORT.md on disk
    exit_status,      \* exit status of the script, -1 while it runs
    schemaTree,       \* directory scans: the *.json files below schemas/
    scanned_snippets,    \* the files build_snippet_dependency_graph scans
    source_schemas,   \* the files analyze_schemas keeps as source schemas
    scan_pc,          \* position of the directory scans
    flag_enabled,     \* main: LLAMAINDEX_AGENT_ENABLED is on
    input,            \* main: the input dict
    LLAMAINDEX_AVAILABLE,    \* the llama_index imports succeeded
    run_pc,           \* position of the run of main
    state,            \* main: the AgentState
    user_message,     \* the message as a set of fragments
    conversation_context,    \* main: the turns handed to the pipeline
    intent,           \* run_fates_pipeline locals
    thinking_steps,
    tool_calls,
    messages,         \* the messages handed to the model
    result_text,
    weave_result,
    pipeline_result,  \* main: what run_fates_pipeline returned
    result,           \* what main returns
    raised,           \* the exception that left main, "none" if none
    buildTree,        \* RecursiveSchemaBuild: the files below schemas_dir
    buildRefs,        \* file -> last path components of its $refs
    schemas,          \* self.schemas: name -> SchemaInfo
    build_order,      \* self.build_order: per level, the names in build order
    stats,            \* self.stats
    built,            \* the names in the order their build was attempted
    build_pc,         \* position of the build
    build_level,      \* the level being scanned or built
    build_index,      \* position in build_order[build_level]
    docTree,          \* file-level run of analyze_schemas: the *.json files
    docContent,       \* file -> position in DocPool of what it holds
    doc_order,        \* the files in the order the loops have taken them
    an_pc,            \* position of the file-level run
    found_refs,       \* refs: what find_snippet_references returned last
    snippet_usage,    \* analyze_schemas: snippet -> list of usage sites
    total_snippet_references,
    report,           \* what generate_report did
    document,         \* process_single_schema: what the input file holds
    heap,             \* the objects of the interpreter: id -> dict, list or leaf
    schema_obj,       \* fix_enum_const_conflict: the object it is called with
    fixed,            \* the object it returned, 0 before it returns
    fix_pc            \* position of the call

\* the input files and what loading them does
loadVars == << snippetLoad, sourceLoad >>

\* the state of the __main__ block
mainVars == << failure, logged, report_file, exit_status >>

\* the state of the directory scans
scanVars == << schemaTree, scanned_snippets, source_schemas, scan_pc >>

\* the state of a run of main of llamaindex_runner
runnerVars == << flag_enabled, input, LLAMAINDEX_AVAILABLE, messages, run_pc, state,
                 user_message, conversation_context, intent, thinking_steps,
                 tool_calls, result_text, weave_result, pipeline_result,
                 result, raised >>

\* the state of a RecursiveSchemaBuild
buildVars == << buildTree, buildRefs, schemas, build_order, stats, built,
                build_pc, build_level, build_index >>

\* the state of a file-level run of analyze_schemas
docVars == << docTree, docContent, doc_order, an_pc, found_refs,
              snippet_usage,
              total_snippet_references, report >>

\* the state of a call of fix_enum_const_conflict
fixVars == << document, heap, schema_obj, fixed, fix_pc >>

\* the variables that are no part of a run of the analyzer
notAnalyzer == << scanVars, runnerVars, buildVars, docVars, fixVars >>

vars == << snippetTree, snippetRefs, sourceRefs, pc, snippet_deps,
           snippet_categories, all_snippets, direct_used_snippets,
           used_snippets, transitive_types, changed, all_used_snippets,
           all_reachable, transitive_field_issues, orphaned_snippets,
           type_passes, field_passes, loadVars, mainVars, notAnalyzer >>

\* the variables of the analyzer and its __main__ block
analyzerVars == << snippetTree, snippetRefs, sourceRefs, pc, snippet_deps,
                   snippet_categories, all_snippets, direct_used_snippets,
                   used_snippets, transitive_types, changed, all_used_snippets,
                   all_reachable, transitive_field_issues, orphaned_snippets,
                   type_passes, field_passes, loadVars, mainVars >>

\* the variables that are no part of the directory scans / of a run of main
notScan == << analyzerVars, runnerVars, buildVars, docVars, fixVars >>

notRunner == << analyzerVars, scanVars, buildVars, docVars, fixVars >>

notBuild == << analyzerVars, scanVars, runnerVars, docVars, fixVars >>

(***************************************************************************)
(* Helpers.                                                                *)
(***************************************************************************)
Range(s) == { s[i] : i \in DOMAIN s }

\* every order in which the members of S can be visited
RECURSIVE Orders(_)
Orders(S) ==
    IF S = {} THEN { <<>> }
    ELSE UNION { { <<x>> \o o : o \in Orders(S \ {x}) } : x \in S }

\* the pairs (file, name) of a reference map
RefPairs(files, refs) == { p \in files \X Names : p[2] \in refs[p[1]] }

\* snippet category from the file path: "/fields/" is tested before "/types/"
PathCategory(f) ==
    IF "fields" \in Range(f.dirs) THEN "field"
    ELSE IF "types" \in Range(f.dirs) THEN "type"
    ELSE "other"

\* snippet_deps.get(s, set())
DepsGet(deps, s) == IF s \in DOMAIN deps THEN deps[s] ELSE {}

\* snippet_categories.get(s); variant: a missing name counts as a type
CatGetDefaultType(cats, s) == IF s \in DOMAIN cats THEN cats[s] ELSE "type"

CatGet(cats, s) == IF s \in DOMAIN cats THEN cats[s] ELSE None

\* d[k] = v on a dict
Put(d, k, v) == [x \in (DOMAIN d) \cup {k} |-> IF x = k THEN v ELSE d[x]]

EmptyDict == [x \in {} |-> {}]

(***************************************************************************)
(* load_json_file: the content, None when one of the three exceptions of   *)
(* its except clause is raised, and any other exception leaves it.         *)
(***************************************************************************)
Raises == "raise"

LoadJsonFile(outcome) ==
    IF outcome = "ok" THEN "content"
    ELSE IF outcome \in {"JSONDecodeError", "FileNotFoundError", "UnicodeDecodeError"}
         THEN None
    ELSE Raises

\* "if content:" / "if not schema_content: continue": the references of the
\* files whose content was loaded
Loaded(refs, load) ==
    [f \in DOMAIN refs |-> IF LoadJsonFile(load[f]) = "content" THEN refs[f] ELSE {}]

(***************************************************************************)
(* build_snippet_dependency_graph: the loop body for one snippet file, and *)
(* the loop over the files in the order the directory scan yields them.    *)
(***************************************************************************)
ScanSnippetFile(g, f, refs) ==
    [ files |-> g.files \cup {f.stem},
      cats  |-> Put(g.cats, f.stem, PathCategory(f)),
      deps  |-> IF refs[f] = {} THEN g.deps
                ELSE Put(g.deps, f.stem, DepsGet(g.deps, f.stem) \cup refs[f]) ]

RECURSIVE ScanSnippets(_, _, _, _)
ScanSnippets(g, order, i, refs) ==
    IF i > Len(order) THEN g
    ELSE ScanSnippets(ScanSnippetFile(g, order[i], refs), order, i + 1, refs)

EmptyGraph == [files |-> {}, cats |-> EmptyDict, deps |-> EmptyDict]

TypeOK ==
    /\ snippetTree \subseteq SnippetPool
    /\ pc \in {"build", "collect", "type_call", "type_loop", "field_call",
               "field_loop", "metrics", "done", "write", "raised", "exit",
               "idle"}
    /\ run_pc \in {"idle", "start", "validate", "ensure_state", "gate", "morta",
                   "branch", "history", "finish", "returned", "raised",
                   "aggregate", "aggregated"}
    /\ raised \in {"none", "ValidationError", "ImportError", "APIError", "NameError"}
    /\ build_pc \in {"idle", "scan", "build", "done"}
    /\ build_level \in 0..5
    /\ failure \in {"none", "analysis", "report"}
    /\ report_file \in {"absent", "empty", "partial", "complete"}
    /\ exit_status \in {-1, 0, 1}
    /\ schemaTree \subseteq PathPool

\* the analyzer before analyze_schemas binds anything
AnalyzerStart ==
    /\ snippet_deps = EmptyDict
    /\ snippet_categories = EmptyDict
    /\ all_snippets = {}
    /\ direct_used_snippets = {}
    /\ used_snippets = {}
    /\ transitive_types = {}
    /\ changed = FALSE
    /\ all_used_snippets = {}
    /\ all_reachable = {}
    /\ transitive_field_issues = {}
    /\ orphaned_snippets = {}
    /\ type_passes = 0
    /\ field_passes = 0
    /\ failure = "none"
    /\ logged = FALSE
    /\ report_file = "absent"
    /\ exit_status = -1

\* no directory scan is modelled
ScanIdle ==
    /\ schemaTree = {}
    /\ scanned_snippets = {}
    /\ source_schemas = {}
    /\ scan_pc = "idle"

\* no run of main is modelled
RunnerIdle ==
    /\ flag_enabled = FALSE
    /\ input = EmptyDict
    /\ LLAMAINDEX_AVAILABLE = FALSE
    /\ run_pc = "idle"
    /\ state = EmptyDict
    /\ user_message = {}
    /\ conversation_context = << >>
    /\ intent = None
    /\ thinking_steps = << >>
    /\ tool_calls = << >>
    /\ messages = << >>
    /\ result_text = None
    /\ weave_result = EmptyDict
    /\ pipeline_result = EmptyDict
    /\ result = EmptyDict
    /\ raised = "none"

\* no run of the analyzer is modelled
AnalyzerIdle ==
    /\ snippetTree = {}
    /\ snippetRefs = EmptyDict
    /\ sourceRefs = EmptyDict
    /\ snippetLoad = EmptyDict
    /\ sourceLoad = EmptyDict
    /\ pc = "idle"
    /\ AnalyzerStart

\* no file-level run is modelled
DocIdle ==
    /\ docTree = {}
    /\ docContent = EmptyDict
    /\ doc_order = << >>
    /\ an_pc = "idle"
    /\ found_refs = << >>
    /\ snippet_usage = EmptyDict
    /\ total_snippet_references = 0
    /\ report = "none"

\* no call of fix_enum_const_conflict is modelled
FixIdle ==
    /\ document = JNum
    /\ heap = << >>
    /\ schema_obj = 0
    /\ fixed = 0
    /\ fix_pc = "idle"

\* no build is modelled
BuildIdle ==
    /\ buildTree = {}
    /\ buildRefs = EmptyDict
    /\ schemas = EmptyDict
    /\ build_order = << >>
    /\ stats = EmptyDict
    /\ built = << >>
    /\ build_pc = "idle"
    /\ build_level = 0
    /\ build_index = 0

Init ==
    /\ snippetTree \in { t \in SUBSET SnippetPool : Cardinality(t) <= MaxSnippetFiles }
    /\ \E e \in { x \in SUBSET (snippetTree \X Names) :
                    /\ Cardinality(x) <= MaxEdges
                    /\ \A p \in x : <<p[1].stem, p[2]>> \in EdgePool } :
         snippetRefs = [f \in snippetTree |-> { n \in Names : <<f, n>> \in e }]
    /\ \E e \in { x \in SUBSET SourceRefPool : Cardinality(x) <= MaxSourceRefs } :
         sourceRefs = [f \in SourcePool |-> { n \in Names : <<f, n>> \in e }]
    /\ snippetLoad = [f \in snippetTree |-> "ok"]
    /\ sourceLoad = [f \in SourcePool |-> "ok"]
    /\ pc = "build"
    /\ AnalyzerStart
    /\ ScanIdle
    /\ RunnerIdle
    /\ BuildIdle
    /\ DocIdle
    /\ FixIdle

(***************************************************************************)
(* analyze_schemas, lines 223-249: the loop over the source schemas in the *)
(* order the directory scan yields them.                                   *)
(***************************************************************************)
\* variant: the references of a file replace those found before
RECURSIVE ScanSourcesLast(_, _, _, _)
ScanSourcesLast(direct, order, i, refs) ==
    IF i > Len(order) THEN direct
    ELSE ScanSourcesLast(refs[order[i]], order, i + 1, refs)

RECURSIVE ScanSources(_, _, _, _)
ScanSources(direct, order, i, refs) ==
    IF i > Len(order) THEN direct
    ELSE ScanSources(direct \cup refs[order[i]], order, i + 1, refs)

(***************************************************************************)
(* The orders in which a pass of a fixed-point loop visits the pairs       *)
(* (snippet, referenced): the snippets of S in any order, and for each the *)
(* snippets it references in any order.                                    *)
(***************************************************************************)
EdgeSeq(s, e) == [i \in 1..Len(e) |-> <<s, e[i]>>]

RECURSIVE PassOrders(_, _)
PassOrders(S, deps) ==
    IF S = {} THEN { <<>> }
    ELSE UNION { { EdgeSeq(s, e) \o rest :
                     e \in Orders(DepsGet(deps, s)),
                     rest \in PassOrders(S \ {s}, deps) } : s \in S }

(***************************************************************************)
(* find_transitive_type_usage: the body of the inner loop (lines 117-122)  *)
(* for one pair, and one pass of the while loop (lines 112-124).           *)
(***************************************************************************)
\* line 106: used_snippets = set(direct_used_snippets)
InitialUsedEmpty(direct) == {}

InitialUsed(direct) == direct

\* variants of the loop body: the new type is not recorded as transitive; the
\* category is not tested; membership in the used set is not tested
TypeVisitNoRecord(acc, p, used, cats) ==
    IF p[2] \notin used /\ CatGet(cats, p[2]) = "type"
    THEN [new |-> acc.new \cup {p[2]}, tt |-> acc.tt, changed |-> TRUE]
    ELSE acc

TypeVisitAny(acc, p, used, cats) ==
    IF p[2] \notin used
    THEN [new |-> acc.new \cup {p[2]}, tt |-> acc.tt \cup {p[2]}, changed |-> TRUE]
    ELSE acc

TypeVisitNoMember(acc, p, used, cats) ==
    IF CatGet(cats, p[2]) = "type"
    THEN [new |-> acc.new \cup {p[2]}, tt |-> acc.tt \cup {p[2]}, changed |-> TRUE]
    ELSE acc

TypeVisit(acc, p, used, cats) ==
    IF p[2] \notin used /\ CatGet(cats, p[2]) = "type"
    THEN [new |-> acc.new \cup {p[2]}, tt |-> acc.tt \cup {p[2]}, changed |-> TRUE]
    ELSE acc

RECURSIVE TypePassFold(_, _, _, _, _)
TypePassFold(acc, order, i, used, cats) ==
    IF i > Len(order) THEN acc
    ELSE TypePassFold(TypeVisit(acc, order[i], used, cats), order, i + 1, used, cats)

(***************************************************************************)
(* find_transitive_field_issues: the body of the inner loop (lines         *)
(* 140-145) for one pair, and one pass of the while loop (lines 137-145).  *)
(***************************************************************************)
\* variants of the loop body: every referenced field is flagged, reached
\* before or not; only types are added to the reachable set
FieldVisitFlagAll(acc, p, direct, cats) ==
    [reach   |-> acc.reach \cup {p[2]},
     changed |-> acc.changed \/ p[2] \notin acc.reach,
     issues  |-> IF CatGet(cats, p[2]) = "field"
                 THEN acc.issues \cup {p[2]} ELSE acc.issues]

FieldVisitTypesOnly(acc, p, direct, cats) ==
    IF p[2] \notin acc.reach
    THEN [reach   |-> IF CatGet(cats, p[2]) = "type"
                      THEN acc.reach \cup {p[2]} ELSE acc.reach,
          changed |-> acc.changed \/ CatGet(cats, p[2]) = "type",
          issues  |-> IF CatGet(cats, p[2]) = "field" /\ p[2] \notin direct
                      THEN acc.issues \cup {p[2]} ELSE acc.issues]
    ELSE acc

\* variant: membership in the reachable set is not tested
FieldVisitNoMember(acc, p, direct, cats) ==
    [reach   |-> acc.reach \cup {p[2]},
     changed |-> TRUE,
     issues  |-> IF CatGet(cats, p[2]) = "field" /\ p[2] \notin direct
                 THEN acc.issues \cup {p[2]} ELSE acc.issues]

FieldVisit(acc, p, direct, cats) ==
    IF p[2] \notin acc.reach
    THEN [reach   |-> acc.reach \cup {p[2]},
          changed |-> TRUE,
          issues  |-> IF CatGet(cats, p[2]) = "field" /\ p[2] \notin direct
                      THEN acc.issues \cup {p[2]} ELSE acc.issues]
    ELSE acc

RECURSIVE FieldPassFold(_, _, _, _, _)
FieldPassFold(acc, order, i, direct, cats) ==
    IF i > Len(order) THEN acc
    ELSE FieldPassFold(FieldVisit(acc, order[i], direct, cats), order, i + 1, direct, cats)

\* analyze_schemas line 274
OrphanedSwapped(all, used) == used \ all

Orphaned(all, used) == all \ used

(***************************************************************************)
(* The run.                                                                *)
(***************************************************************************)
\* an exception that leaves load_json_file leaves analyze_schemas too
BuildGraph ==
    /\ pc = "build"
    /\ IF \E f \in snippetTree : LoadJsonFile(snippetLoad[f]) = Raises
       THEN /\ pc' = "raised"
            /\ failure' = "analysis"
            /\ UNCHANGED << snippet_deps, snippet_categories, all_snippets >>
       ELSE /\ \E order \in Orders(snippetTree) :
                 LET g == ScanSnippets(EmptyGraph, order, 1,
                                       Loaded(snippetRefs, snippetLoad)) IN
                   /\ snippet_deps' = g.deps
                   /\ snippet_categories' = g.cats
                   /\ all_snippets' = g.files
            /\ pc' = "collect"
            /\ UNCHANGED failure
    /\ UNCHANGED << snippetTree, snippetRefs, sourceRefs, direct_used_snippets,
                    used_snippets, transitive_types, changed, all_used_snippets,
                    all_reachable, transitive_field_issues, orphaned_snippets,
                    type_passes, field_passes >>
    /\ UNCHANGED << loadVars, logged, report_file, exit_status, notAnalyzer >>

CollectDirect ==
    /\ pc = "collect"
    /\ IF \E f \in DOMAIN sourceRefs : LoadJsonFile(sourceLoad[f]) = Raises
       THEN /\ pc' = "raised"
            /\ failure' = "analysis"
            /\ UNCHANGED direct_used_snippets
       ELSE /\ \E order \in Orders(DOMAIN sourceRefs) :
                 direct_used_snippets' =
                     ScanSources({}, order, 1, Loaded(sourceRefs, sourceLoad))
            /\ pc' = "type_call"
            /\ UNCHANGED failure
    /\ UNCHANGED << loadVars, logged, report_file, exit_status, notAnalyzer >>
    /\ UNCHANGED << snippetTree, snippetRefs, sourceRefs, snippet_deps,
                    snippet_categories, all_snippets, used_snippets,
                    transitive_types, changed, all_used_snippets, all_reachable,
                    transitive_field_issues, orphaned_snippets, type_passes,
                    field_passes >>

\* find_transitive_type_usage is entered: lines 106-108
TypeUsageCall ==
    /\ pc = "type_call"
    /\ used_snippets' = InitialUsed(direct_used_snippets)
    /\ transitive_types' = {}
    /\ changed' = TRUE
    /\ pc' = "type_loop"
    /\ UNCHANGED << loadVars, mainVars, notAnalyzer >>
    /\ UNCHANGED << snippetTree, snippetRefs, sourceRefs, snippet_deps,
                    snippet_categories, all_snippets, direct_used_snippets,
                    all_used_snippets, all_reachable, transitive_field_issues,
                    orphaned_snippets, type_passes, field_passes >>

\* one pass of its while loop; the pass that changes nothing leaves the loop
\* and returns (line 126, bound at line 264)
TypeUsagePass ==
    /\ pc = "type_loop"
    /\ changed
    /\ \E order \in PassOrders(used_snippets, snippet_deps) :
         LET acc == TypePassFold([new |-> {}, tt |-> transitive_types, changed |-> FALSE],
                                 order, 1, used_snippets, snippet_categories) IN
           /\ used_snippets' = used_snippets \cup acc.new
           /\ transitive_types' = acc.tt
           /\ changed' = acc.changed
           /\ IF acc.changed
              THEN /\ pc' = "type_loop"
                   /\ UNCHANGED all_used_snippets
              ELSE /\ pc' = "field_call"
                   /\ all_used_snippets' = used_snippets \cup acc.new
    /\ type_passes' = type_passes + 1
    /\ UNCHANGED << loadVars, mainVars, notAnalyzer >>
    /\ UNCHANGED << snippetTree, snippetRefs, sourceRefs, snippet_deps,
                    snippet_categories, all_snippets, direct_used_snippets,
                    all_reachable, transitive_field_issues, orphaned_snippets,
                    field_passes >>

\* find_transitive_field_issues is entered: lines 130-134
FieldIssuesCall ==
    /\ pc = "field_call"
    /\ transitive_field_issues' = {}
    /\ all_reachable' = direct_used_snippets
    /\ changed' = TRUE
    /\ pc' = "field_loop"
    /\ UNCHANGED << loadVars, mainVars, notAnalyzer >>
    /\ UNCHANGED << snippetTree, snippetRefs, sourceRefs, snippet_deps,
                    snippet_categories, all_snippets, direct_used_snippets,
                    used_snippets, transitive_types, all_used_snippets,
                    orphaned_snippets, type_passes, field_passes >>

\* one pass of its while loop over list(all_reachable); the pass that changes
\* nothing leaves the loop and returns (line 147, bound at line 267)
FieldIssuesPass ==
    /\ pc = "field_loop"
    /\ changed
    /\ \E order \in PassOrders(all_reachable, snippet_deps) :
         LET acc == FieldPassFold([reach |-> all_reachable, changed |-> FALSE,
                                   issues |-> transitive_field_issues],
                                  order, 1, direct_used_snippets, snippet_categories) IN
           /\ all_reachable' = acc.reach
           /\ transitive_field_issues' = acc.issues
           /\ changed' = acc.changed
           /\ pc' = IF acc.changed THEN "field_loop" ELSE "metrics"
    /\ field_passes' = field_passes + 1
    /\ UNCHANGED << loadVars, mainVars, notAnalyzer >>
    /\ UNCHANGED << snippetTree, snippetRefs, sourceRefs, snippet_deps,
                    snippet_categories, all_snippets, direct_used_snippets,
                    used_snippets, transitive_types, all_used_snippets,
                    orphaned_snippets, type_passes >>

\* analyze_schemas lines 273-298: the orphans, then the report is returned
Metrics ==
    /\ pc = "metrics"
    /\ orphaned_snippets' = Orphaned(all_snippets, all_used_snippets)
    /\ pc' = "done"
    /\ UNCHANGED << loadVars, mainVars, notAnalyzer >>
    /\ UNCHANGED << snippetTree, snippetRefs, sourceRefs, snippet_deps,
                    snippet_categories, all_snippets, direct_used_snippets,
                    used_snippets, transitive_types, changed, all_used_snippets,
                    all_reachable, transitive_field_issues, type_passes,
                    field_passes >>

Next ==
    \/ BuildGraph
    \/ CollectDirect
    \/ TypeUsageCall
    \/ TypeUsagePass
    \/ FieldIssuesCall
    \/ FieldIssuesPass
    \/ Metrics

Spec == Init /\ [][Next]_vars

(***************************************************************************)
(* The __main__ block (lines 566-595) around analyze_schemas: the report   *)
(* is written once analyze_schemas has returned it, and "except Exception" *)
(* prints the failure and the traceback; the script then ends.             *)
(***************************************************************************)
\* line 572: open(output_file, 'w') truncates the file, or raises
OpenReport ==
    /\ pc = "done"
    /\ \E opened \in BOOLEAN :
         IF opened
         THEN /\ report_file' = "empty"
              /\ pc' = "write"
              /\ UNCHANGED failure
         ELSE /\ pc' = "raised"
              /\ failure' = "report"
              /\ UNCHANGED report_file
    /\ UNCHANGED << snippetTree, snippetRefs, sourceRefs, snippet_deps,
                    snippet_categories, all_snippets, direct_used_snippets,
                    used_snippets, transitive_types, changed, all_used_snippets,
                    all_reachable, transitive_field_issues, orphaned_snippets,
                    type_passes, field_passes >>
    /\ UNCHANGED << loadVars, logged, exit_status, notAnalyzer >>

\* line 573: f.write(report) writes all of it, or raises after some of it;
\* lines 575-591 print the summary and the script ends
WriteReport ==
    /\ pc = "write"
    /\ \E written \in {"complete", "partial", "empty"} :
         /\ report_file' = written
         /\ IF written = "complete"
            THEN /\ pc' = "exit"
                 /\ exit_status' = 0
                 /\ UNCHANGED failure
            ELSE /\ pc' = "raised"
                 /\ failure' = "report"
                 /\ UNCHANGED exit_status
    /\ UNCHANGED << snippetTree, snippetRefs, sourceRefs, snippet_deps,
                    snippet_categories, all_snippets, direct_used_snippets,
                    used_snippets, transitive_types, changed, all_used_snippets,
                    all_reachable, transitive_field_issues, orphaned_snippets,
                    type_passes, field_passes >>
    /\ UNCHANGED << loadVars, logged, notAnalyzer >>

\* lines 592-595: the handler prints, and the script ends as any script whose
\* last statement has run
HandleException ==
    /\ pc = "raised"
    /\ logged' = TRUE
    /\ pc' = "exit"
    /\ exit_status' = 0
    /\ UNCHANGED << snippetTree, snippetRefs, sourceRefs, snippet_deps,
                    snippet_categories, all_snippets, direct_used_snippets,
                    used_snippets, transitive_types, changed, all_used_snippets,
                    all_reachable, transitive_field_issues, orphaned_snippets,
                    type_passes, field_passes >>
    /\ UNCHANGED << loadVars, failure, report_file, notAnalyzer >>

\* the script run on trees whose files may fail to load
InitIO ==
    /\ snippetTree \in SUBSET LoadSnippetPool
    /\ \E e \in { x \in SUBSET (snippetTree \X Names) :
                    /\ Cardinality(x) <= MaxEdges
                    /\ \A p \in x : <<p[1].stem, p[2]>> \in LoadEdgePool } :
         snippetRefs = [f \in snippetTree |-> { n \in Names : <<f, n>> \in e }]
    /\ \E e \in { x \in SUBSET SourceRefPool : Cardinality(x) <= MaxSourceRefs } :
         sourceRefs = [f \in SourcePool |-> { n \in Names : <<f, n>> \in e }]
    /\ snippetLoad \in [snippetTree -> LoadOutcomes]
    /\ sourceLoad \in [SourcePool -> LoadOutcomes]
    /\ Cardinality({ f \in snippetTree : snippetLoad[f] # "ok" })
         + Cardinality({ f \in SourcePool : sourceLoad[f] # "ok" }) <= MaxLoadErrors
    /\ pc = "build"
    /\ AnalyzerStart
    /\ ScanIdle
    /\ RunnerIdle
    /\ BuildIdle
    /\ DocIdle
    /\ FixIdle

NextIO ==
    \/ BuildGraph
    \/ CollectDirect
    \/ TypeUsageCall
    \/ TypeUsagePass
    \/ FieldIssuesCall
    \/ FieldIssuesPass
    \/ Metrics
    \/ OpenReport
    \/ WriteReport
    \/ HandleException

SpecIO == InitIO /\ [][NextIO]_vars

(***************************************************************************)
(* The two directory scans: snippets_dir.rglob("*.json") of                *)
(* build_snippet_dependency_graph (line 83) and the filter of              *)
(* analyze_schemas over schemas_dir.rglob("*.json") (lines 216-219), which *)
(* tests the whole path string for the words "assembled" and "snippets".   *)
(***************************************************************************)
\* word in segment, for the segments of PathPool
SegmentHas(seg, word) == seg = word \/ <<seg, word>> \in SubstringPool

\* word in str(path): "schemas", "/" and ".json" hold none of the words
PathHas(path, word) == \E i \in 1..Len(path) : SegmentHas(path[i], word)

\* the files below schemas/snippets
RglobSnippets(tree) == { f \in tree : Len(f) >= 2 /\ f[1] = "snippets" }

\* lines 217-219
SourceFilter(tree) ==
    { f \in tree : ~PathHas(f, "assembled") /\ ~PathHas(f, "snippets") }

InitScan ==
    /\ schemaTree \in SUBSET PathPool
    /\ scanned_snippets = {}
    /\ source_schemas = {}
    /\ scan_pc = "snippets"
    /\ AnalyzerIdle
    /\ RunnerIdle
    /\ BuildIdle
    /\ DocIdle
    /\ FixIdle

ScanSnippetDir ==
    /\ scan_pc = "snippets"
    /\ scanned_snippets' = RglobSnippets(schemaTree)
    /\ scan_pc' = "sources"
    /\ UNCHANGED << schemaTree, source_schemas >>
    /\ UNCHANGED notScan

FindSourceSchemas ==
    /\ scan_pc = "sources"
    /\ source_schemas' = SourceFilter(schemaTree)
    /\ scan_pc' = "done"
    /\ UNCHANGED << schemaTree, scanned_snippets >>
    /\ UNCHANGED notScan

NextScan ==
    \/ ScanSnippetDir
    \/ FindSourceSchemas

SpecScan == InitScan /\ [][NextScan]_vars

(***************************************************************************)
(* llamaindex_runner.detect_intent: the message is lowered, and the three  *)
(* pattern lists are tried in turn, each by substring.                     *)
(***************************************************************************)
\* str.lower()
Lower(x) ==
    IF \E p \in LowerPool : p[1] = x
    THEN (CHOOSE p \in LowerPool : p[1] = x)[2]
    ELSE x

\* pattern in piece
Occurs(pattern, piece) == pattern = piece \/ <<pattern, piece>> \in OccursPool

\* any(p in msg_lower for p in patterns)
AnyIn(patterns, message) ==
    \E q \in patterns : \E f \in message : Occurs(q, Lower(f))

QueryPatterns ==
    { "?", "what", "how", "why", "when", "where", "who", "can you", "do you",
      "are you" }

CommandPatterns == { "create", "add", "delete", "remove", "update", "set", "make" }

LogPatterns ==
    { "i went", "i did", "i was", "yesterday", "last week", "this morning",
      "today i" }

\* variant: the command patterns are tried first
detect_intent_command_first(message) ==
    IF AnyIn(CommandPatterns, message) THEN "COMMAND"
    ELSE IF AnyIn(QueryPatterns, message) THEN "QUERY"
    ELSE IF AnyIn(LogPatterns, message) THEN "LOG"
    ELSE "QUERY"

detect_intent(message) ==
    IF AnyIn(QueryPatterns, message) THEN "QUERY"
    ELSE IF AnyIn(CommandPatterns, message) THEN "COMMAND"
    ELSE IF AnyIn(LogPatterns, message) THEN "LOG"
    ELSE "QUERY"

(***************************************************************************)
(* llamaindex_adapter: the builders of the weave result and                *)
(* aggregate_weave_from_tool_results.  Probabilities and physics are in    *)
(* hundredths.                                                             *)
(***************************************************************************)
\* dict.get(k, default)
Get(d, k, default) == IF k \in DOMAIN d THEN d[k] ELSE default

make_thinking_step(agent, thought) == [agent |-> agent, thought |-> thought]

make_weave_entity(entity_type, probability) ==
    [type |-> entity_type, probability |-> probability]

make_spawn_suggestion(content, entity_type, confidence, physics, weave_unit_index) ==
    [ action |-> "suggest", content |-> content, physics |-> physics,
      confidence |-> confidence, entity_type |-> entity_type,
      weave_unit_index |-> weave_unit_index ]

\* variant: the review count is left at its default
make_weave_result_no_count(intent_, weave_units, spawn_suggestions, primary_theme) ==
    [ intent |-> intent_,
      weave_units |-> weave_units,
      spawn |-> [ summary |-> [review_count |-> 0, auto_spawn_count |-> 0],
                  suggestions |-> spawn_suggestions ],
      processed_at |-> "utcnow",
      primary_theme |-> primary_theme,
      subjects_identified |-> << >> ]

make_weave_result(intent_, weave_units, spawn_suggestions, primary_theme) ==
    [ intent |-> intent_,
      weave_units |-> weave_units,
      spawn |-> [ summary |-> [review_count |-> Len(spawn_suggestions),
                               auto_spawn_count |-> 0],
                  suggestions |-> spawn_suggestions ],
      processed_at |-> "utcnow",
      primary_theme |-> primary_theme,
      subjects_identified |-> << >> ]

\* lines 363-364
DefaultPhysics ==
    [valence |-> 0, arousal |-> 40, significance |-> 30, epistemic |-> 50]

\* lines 375-387: one classification becomes an entity and a suggestion
ClassifyOne(acc, c, content) ==
    LET entity_type == Get(c, "entity_type", Get(c, "type", "MOMENT"))
        prob == Get(c, "probability", Get(c, "confidence", 50))
    IN [acc EXCEPT
          !.entities = Append(@, make_weave_entity(entity_type, prob)),
          !.spawn_suggestions =
              Append(@, make_spawn_suggestion(content, entity_type, prob,
                                              acc.physics, 0))]

RECURSIVE ClassifyAll(_, _, _, _)
ClassifyAll(acc, cs, i, content) ==
    IF i > Len(cs) THEN acc
    ELSE ClassifyAll(ClassifyOne(acc, cs[i], content), cs, i + 1, content)

\* "not result or not isinstance(result, dict)"
Skipped(r) == r.kind # "dict" \/ DOMAIN r.body = {}

\* lines 367-400: the loop body for one tool call
ToolVisit(acc, tool, content) ==
    IF Skipped(tool.result) THEN acc
    ELSE IF tool.tool \in {"classifier", "decima_classify"}
    THEN LET a == ClassifyAll(acc, Get(tool.result.body, "classifications", << >>),
                              1, content)
         IN IF "intent" \in DOMAIN tool.result.body
            THEN [a EXCEPT !.intent = tool.result.body["intent"]]
            ELSE a
    ELSE IF tool.tool = "physics"
    THEN [acc EXCEPT !.physics =
            [ valence |-> Get(tool.result.body, "valence", 0),
              arousal |-> Get(tool.result.body, "arousal", 40),
              significance |-> Get(tool.result.body, "significance", 30),
              epistemic |-> Get(tool.result.body, "epistemic",
                                Get(tool.result.body, "clarity", 50)) ]]
    ELSE acc

RECURSIVE ToolFold(_, _, _, _)
ToolFold(acc, tools, i, content) ==
    IF i > Len(tools) THEN acc
    ELSE ToolFold(ToolVisit(acc, tools[i], content), tools, i + 1, content)

\* lines 402-407
DefaultEntities(intent_) ==
    IF intent_ = "QUERY"
    THEN << make_weave_entity("INTENT", 70), make_weave_entity("THREAD", 30) >>
    ELSE << make_weave_entity("MOMENT", 80) >>

aggregate_weave_from_tool_results(content, tool_results, intent_) ==
    LET acc == ToolFold([ entities |-> << >>, spawn_suggestions |-> << >>,
                          intent |-> intent_, physics |-> DefaultPhysics ],
                        tool_results, 1, content)
        entities == IF acc.entities = << >> THEN DefaultEntities(acc.intent)
                    ELSE acc.entities
        unit == [ index |-> 0, content |-> content, physics |-> acc.physics,
                  entities |-> entities, unit_type |-> Lower(acc.intent),
                  subject_type |-> Lower(acc.intent),
                  gathered_from |-> << content >> ]
    IN make_weave_result(acc.intent, << unit >>, acc.spawn_suggestions,
                         Lower(acc.intent))

(***************************************************************************)
(* llamaindex_runner: main and run_fates_pipeline, step by step.           *)
(***************************************************************************)
\* the thinking steps of lines 177-195 and 199-203
GateStep(intent_) ==
    make_thinking_step("gate",
        IF intent_ = "QUERY" THEN "Intent, skip segmentation" ELSE "Intent")

\* variant: the second step is Decima's
MortaStepDecima(intent_) ==
    make_thinking_step("decima", "Segmenting content")

MortaStep(intent_) ==
    make_thinking_step("morta",
        IF intent_ # "QUERY" THEN "Segmenting content" ELSE "Morta skipping")

NonaFallbackStep == make_thinking_step("nona", "Nona responding (fallback mode)")

\* state.add_turn
add_turn(st, role, content) ==
    [st EXCEPT !.conversation_context =
        Append(@, [role |-> role, content |-> content,
                   speaker |-> st.current_speaker])]

\* state.finish_task
finish_task(st) == [st EXCEPT !.just_finished = TRUE, !.current_speaker = None]

\* run_fates_pipeline lines 241-252: the turns of the history whose role is
\* user or assistant, then the current message; variant: the current message
\* is taken to be in the history and added again
RECURSIVE HistoryMessages(_, _)
HistoryMessages(context, i) ==
    IF i > Len(context) THEN << >>
    ELSE (IF context[i].role \in {"user", "assistant"}
          THEN << [role |-> context[i].role, content |-> context[i].content] >>
          ELSE << >>)
         \o HistoryMessages(context, i + 1)

BuildMessagesTwice(context, message) ==
    HistoryMessages(context, 1)
      \o << [role |-> "user", content |-> message],
            [role |-> "user", content |-> message] >>

BuildMessages(context, message) ==
    Append(HistoryMessages(context, 1), [role |-> "user", content |-> message])

\* the messages a user may send
Messages == { m \in SUBSET FragmentPool : Cardinality(m) <= MaxFragments }

InitRunner ==
    /\ flag_enabled \in BOOLEAN
    /\ LLAMAINDEX_AVAILABLE \in BOOLEAN
    /\ \E hs \in BOOLEAN, hr \in BOOLEAN, ht \in BOOLEAN, hm \in BOOLEAN,
          m \in Messages, c \in ContextPool :
         /\ ~hm => m = {}
         /\ input = [ has_state |-> hs, has_request_id |-> hr,
                      has_message |-> hm, user_message |-> m,
                      state |-> [has_tenant_id |-> ht, conversation_context |-> c] ]
    /\ run_pc = "start"
    /\ state = EmptyDict
    /\ user_message = {}
    /\ conversation_context = << >>
    /\ intent = None
    /\ thinking_steps = << >>
    /\ tool_calls = << >>
    /\ messages = << >>
    /\ result_text = None
    /\ weave_result = EmptyDict
    /\ pipeline_result = EmptyDict
    /\ result = EmptyDict
    /\ raised = "none"
    /\ AnalyzerIdle
    /\ ScanIdle
    /\ BuildIdle
    /\ DocIdle
    /\ FixIdle

\* main lines 334-343: the feature flag
MainFlag ==
    /\ run_pc = "start"
    /\ IF flag_enabled
       THEN /\ run_pc' = "validate"
            /\ UNCHANGED result
       ELSE /\ run_pc' = "returned"
            /\ result' = [error |-> TRUE, code |-> "AGENT_DISABLED",
                          message |-> "LlamaIndex agent disabled"]
    /\ UNCHANGED << flag_enabled, input, LLAMAINDEX_AVAILABLE, messages, state,
                    user_message, conversation_context, intent, thinking_steps,
                    tool_calls, result_text, weave_result, pipeline_result,
                    raised >>
    /\ UNCHANGED notRunner

\* main lines 345-352: ConciergeInput needs state and request_id
MainValidate ==
    /\ run_pc = "validate"
    /\ IF input.has_state /\ input.has_request_id
       THEN /\ run_pc' = "ensure_state"
            /\ UNCHANGED result
       ELSE /\ run_pc' = "returned"
            /\ result' = [error |-> TRUE, code |-> "VALIDATION_ERROR",
                          message |-> "Invalid concierge input"]
    /\ UNCHANGED << flag_enabled, input, LLAMAINDEX_AVAILABLE, messages, state,
                    user_message, conversation_context, intent, thinking_steps,
                    tool_calls, result_text, weave_result, pipeline_result,
                    raised >>
    /\ UNCHANGED notRunner

\* main lines 354-367: AgentState needs tenant_id, and its validation is
\* outside the try; the context is copied before the user turn is added
MainEnsureState ==
    /\ run_pc = "ensure_state"
    /\ IF input.state.has_tenant_id
       THEN LET st == [ tenant_id |-> "tenant",
                        conversation_context |-> input.state.conversation_context,
                        current_speaker |-> None,
                        just_finished |-> FALSE ]
                msg == IF input.has_message THEN input.user_message ELSE {}
            IN /\ user_message' = msg
               /\ conversation_context' =
                    [ i \in DOMAIN st.conversation_context |->
                        [ role |-> st.conversation_context[i].role,
                          content |-> st.conversation_context[i].content ] ]
               /\ state' = add_turn(st, "user", msg)
               /\ run_pc' = "gate"
               /\ UNCHANGED raised
       ELSE /\ raised' = "ValidationError"
            /\ run_pc' = "raised"
            /\ UNCHANGED << state, user_message, conversation_context >>
    /\ UNCHANGED << flag_enabled, input, LLAMAINDEX_AVAILABLE, messages, intent,
                    thinking_steps, tool_calls, result_text, weave_result,
                    pipeline_result, result >>
    /\ UNCHANGED notRunner

\* run_fates_pipeline lines 172-181
Gate ==
    /\ run_pc = "gate"
    /\ intent' = detect_intent(user_message)
    /\ thinking_steps' = << GateStep(intent') >>
    /\ tool_calls' = << >>
    /\ run_pc' = "morta"
    /\ UNCHANGED << flag_enabled, input, LLAMAINDEX_AVAILABLE, messages, state,
                    user_message, conversation_context, result_text,
                    weave_result, pipeline_result, result, raised >>
    /\ UNCHANGED notRunner

\* lines 183-195
Morta ==
    /\ run_pc = "morta"
    /\ thinking_steps' = Append(thinking_steps, MortaStep(intent))
    /\ run_pc' = "branch"
    /\ UNCHANGED << flag_enabled, input, LLAMAINDEX_AVAILABLE, messages, state,
                    user_message, conversation_context, intent, tool_calls,
                    result_text, weave_result, pipeline_result, result, raised >>
    /\ UNCHANGED notRunner

\* lines 197-218: the pipeline without LlamaIndex
NonaFallback ==
    /\ run_pc = "branch"
    /\ ~LLAMAINDEX_AVAILABLE
    /\ LET steps == Append(thinking_steps, NonaFallbackStep)
           weave == aggregate_weave_from_tool_results(user_message, << >>, intent)
       IN /\ thinking_steps' = steps
          /\ weave_result' = weave
          /\ pipeline_result' =
               [ agent |-> "nona",
                 response |-> [ text |-> "(LlamaIndex unavailable) You said: ",
                                said |-> user_message ],
                 thinking_steps |-> steps,
                 tool_calls |-> tool_calls,
                 weave_result |-> weave,
                 intent |-> intent ]
    /\ run_pc' = "finish"
    /\ UNCHANGED << flag_enabled, input, LLAMAINDEX_AVAILABLE, messages, state,
                    user_message, conversation_context, intent, tool_calls,
                    result_text, result, raised >>
    /\ UNCHANGED notRunner

\* lines 220-262: the imports, the steps of Decima and Nona, and the call of
\* the Anthropic API, which answers with a text, with no content, or fails
AnthropicCall ==
    /\ run_pc = "branch"
    /\ LLAMAINDEX_AVAILABLE
    /\ \E outcome \in {"ImportError", "APIError", "text", "empty"} :
         IF outcome = "ImportError"
         THEN /\ raised' = outcome
              /\ run_pc' = "raised"
              /\ UNCHANGED << thinking_steps, result_text, messages >>
         ELSE IF outcome = "APIError"
         THEN /\ raised' = outcome
              /\ run_pc' = "raised"
              /\ messages' = BuildMessages(conversation_context, user_message)
              /\ UNCHANGED << thinking_steps, result_text >>
         ELSE /\ thinking_steps' =
                   thinking_steps \o
                     << make_thinking_step("decima", "Decima classifying"),
                        make_thinking_step("nona", "Nona responding") >>
              /\ messages' = BuildMessages(conversation_context, user_message)
              /\ result_text' = IF outcome = "text" THEN "Hello" ELSE ""
              /\ run_pc' = "history"
              /\ UNCHANGED raised
    /\ UNCHANGED << flag_enabled, input, LLAMAINDEX_AVAILABLE, state,
                    user_message, conversation_context, intent, tool_calls,
                    weave_result, pipeline_result, result >>
    /\ UNCHANGED notRunner

\* line 265: getattr(agent, "chat_history", []) names agent, which is bound
\* neither in run_fates_pipeline nor in the module: NameError.  Lines
\* 266-323 are never reached.
CollectToolCalls ==
    /\ run_pc = "history"
    /\ raised' = "NameError"
    /\ run_pc' = "raised"
    /\ UNCHANGED << flag_enabled, input, LLAMAINDEX_AVAILABLE, messages, state,
                    user_message, conversation_context, intent, thinking_steps,
                    tool_calls, result_text, weave_result, pipeline_result,
                    result >>
    /\ UNCHANGED notRunner

\* main lines 372-392
MainFinish ==
    /\ run_pc = "finish"
    /\ LET st == finish_task(add_turn(state, "assistant", pipeline_result.response))
       IN /\ state' = st
          /\ result' =
               [ agent |-> pipeline_result.agent,
                 state |-> st,
                 response |-> pipeline_result.response,
                 tool_calls |-> Get(pipeline_result, "tool_calls", << >>),
                 weave_result |-> Get(pipeline_result, "weave_result", None),
                 has_more_tasks |-> FALSE,
                 thinking_steps |-> Get(pipeline_result, "thinking_steps", << >>) ]
    /\ run_pc' = "returned"
    /\ UNCHANGED << flag_enabled, input, LLAMAINDEX_AVAILABLE, messages, user_message,
                    conversation_context, intent, thinking_steps, tool_calls,
                    result_text, weave_result, pipeline_result, raised >>
    /\ UNCHANGED notRunner

NextRunner ==
    \/ MainFlag
    \/ MainValidate
    \/ MainEnsureState
    \/ Gate
    \/ Morta
    \/ NonaFallback
    \/ AnthropicCall
    \/ CollectToolCalls
    \/ MainFinish

SpecRunner == InitRunner /\ [][NextRunner]_vars

(***************************************************************************)
(* aggregate_weave_from_tool_results called on its own, as the contract    *)
(* test calls it, with any tool calls.                                     *)
(***************************************************************************)
ToolResultLists ==
    UNION { [1..n -> ToolCallPool] : n \in 0..MaxToolResults }

InitWeave ==
    /\ flag_enabled = FALSE
    /\ input = EmptyDict
    /\ LLAMAINDEX_AVAILABLE = FALSE
    /\ run_pc = "aggregate"
    /\ state = EmptyDict
    /\ user_message \in { {}, {"Yesterday", "I went"} }
    /\ conversation_context = << >>
    /\ intent \in {"QUERY", "COMMAND", "LOG"}
    /\ thinking_steps = << >>
    /\ tool_calls \in ToolResultLists
    /\ messages = << >>
    /\ result_text = None
    /\ weave_result = EmptyDict
    /\ pipeline_result = EmptyDict
    /\ result = EmptyDict
    /\ raised = "none"
    /\ AnalyzerIdle
    /\ ScanIdle
    /\ BuildIdle
    /\ DocIdle
    /\ FixIdle

AggregateCall ==
    /\ run_pc = "aggregate"
    /\ weave_result' = aggregate_weave_from_tool_results(user_message, tool_calls, intent)
    /\ run_pc' = "aggregated"
    /\ UNCHANGED << flag_enabled, input, LLAMAINDEX_AVAILABLE, messages, state,
                    user_message, conversation_context, intent, thinking_steps,
                    tool_calls, result_text, pipeline_result, result, raised >>
    /\ UNCHANGED notRunner

NextWeave == AggregateCall

SpecWeave == InitWeave /\ [][NextWeave]_vars

(***************************************************************************)
(* recursive_schema_build.RecursiveSchemaBuild: scan_schemas puts the      *)
(* files into six levels by the glob patterns of lines 64-113, and         *)
(* build_all builds level after level, each in the order of its list.      *)
(***************************************************************************)
\* the files of the tree the patterns of a level match; in BuildPool the
\* files of one level all match the same pattern
LevelFiles(tree, level) ==
    { f \in tree :
        CASE level = 0 -> f.dir = "snippets/types/primitives"
          [] level = 1 ->
               \/ /\ f.dir = "snippets/types/physics"
                  /\ f.file \in {"ComplexNumber.json", "Vec3.json", "Vec6.json"}
               \/ f.dir \in {"snippets/types/classification",
                              "snippets/types/lifecycles"}
               \/ /\ f.dir = "snippets/types/social"
                  /\ f.file \in {"RelationshipType.json", "BondEvent.json"}
          [] level = 2 ->
               /\ f.dir = "snippets/types/physics"
               /\ f.file \in {"DensityMatrix.json", "EntanglementMap.json",
                               "PhysicsConstants.json", "AbstractionLevel.json",
                               "CognitivePerspective.json", "FilamentType.json",
                               "MotifType.json"}
          [] level = 3 -> f.dir = "snippets/fields"
          [] level = 4 -> f.dir \in {"_base", "components"} /\ f.file \in SchemaJsonFiles
          [] OTHER     -> f.dir = "entities" /\ f.file \in SchemaJsonFiles }

\* _get_schema_name
SchemaName(file) == (CHOOSE p \in SchemaNamePool : p[1] = file)[2]

\* the name _extract_refs records for a $ref
RefName(ref) == (CHOOSE p \in RefNamePool : p[1] = ref)[2]

\* _add_schema on b = [schemas, build_order, stats]; variant: a name that is
\* registered already is registered again
AddSchemaNoSkip(b, f, level, refs) ==
    LET name == SchemaName(f.file) IN
      [ schemas |-> Put(b.schemas, name,
                        [ path |-> f, name |-> name, level |-> level,
                          dependencies |-> { RefName(r) : r \in refs[f] } ]),
        build_order |-> [b.build_order EXCEPT ![level + 1] = Append(@, name)],
        stats |-> [b.stats EXCEPT !.total = @ + 1,
                                  !.by_level[level + 1] = @ + 1] ]

AddSchema(b, f, level, refs) ==
    LET name == SchemaName(f.file) IN
      IF name \in DOMAIN b.schemas THEN b
      ELSE [ schemas |-> Put(b.schemas, name,
                             [ path |-> f, name |-> name, level |-> level,
                               dependencies |-> { RefName(r) : r \in refs[f] } ]),
             build_order |-> [b.build_order EXCEPT ![level + 1] = Append(@, name)],
             stats |-> [b.stats EXCEPT !.total = @ + 1,
                                       !.by_level[level + 1] = @ + 1] ]

RECURSIVE AddSchemas(_, _, _, _, _)
AddSchemas(b, order, i, level, refs) ==
    IF i > Len(order) THEN b
    ELSE AddSchemas(AddSchema(b, order[i], level, refs), order, i + 1, level, refs)

InitBuild ==
    /\ buildTree \in { t \in SUBSET BuildPool : Cardinality(t) <= MaxBuildFiles }
    /\ \E e \in { x \in SUBSET BuildRefPool :
                    /\ Cardinality(x) <= MaxBuildRefs
                    /\ \A p \in x : \E f \in buildTree : f.file = p[1] } :
         buildRefs = [f \in buildTree |-> { p[2] : p \in { q \in e : q[1] = f.file } }]
    /\ schemas = EmptyDict
    /\ build_order = [i \in 1..6 |-> << >>]
    /\ stats = [ total |-> 0, success |-> 0, failed |-> 0,
                 by_level |-> [i \in 1..6 |-> 0],
                 success_by_level |-> [i \in 1..6 |-> 0] ]
    /\ built = << >>
    /\ build_pc = "scan"
    /\ build_level = 0
    /\ build_index = 1
    /\ AnalyzerIdle
    /\ ScanIdle
    /\ RunnerIdle
    /\ DocIdle
    /\ FixIdle

\* one _scan_level call of scan_schemas, the files in the order glob yields
ScanLevel ==
    /\ build_pc = "scan"
    /\ \E order \in Orders(LevelFiles(buildTree, build_level)) :
         LET b == AddSchemas([schemas |-> schemas, build_order |-> build_order,
                              stats |-> stats], order, 1, build_level, buildRefs)
         IN /\ schemas' = b.schemas
            /\ build_order' = b.build_order
            /\ stats' = b.stats
    /\ IF build_level < 5
       THEN /\ build_level' = build_level + 1
            /\ UNCHANGED build_pc
       ELSE /\ build_level' = 0
            /\ build_pc' = "build"
    /\ UNCHANGED << buildTree, buildRefs, built, build_index >>
    /\ UNCHANGED notBuild

\* _build_level lines 262-283: one schema of the level is preprocessed and
\* generated; the generation gives output, gives none, or raises
BuildSchema ==
    /\ build_pc = "build"
    /\ build_index <= Len(build_order[build_level + 1])
    /\ \E outcome \in {"generated", "no_output", "exception"} :
         stats' = IF outcome = "generated"
                  THEN [stats EXCEPT !.success = @ + 1,
                                     !.success_by_level[build_level + 1] = @ + 1]
                  ELSE [stats EXCEPT !.failed = @ + 1]
    /\ built' = Append(built, build_order[build_level + 1][build_index])
    /\ build_index' = build_index + 1
    /\ UNCHANGED << buildTree, buildRefs, schemas, build_order, build_pc,
                    build_level >>
    /\ UNCHANGED notBuild

\* _build_level returns True, and build_all goes to the next level or ends
FinishLevel ==
    /\ build_pc = "build"
    /\ build_index > Len(build_order[build_level + 1])
    /\ IF build_level < 5
       THEN /\ build_level' = build_level + 1
            /\ UNCHANGED build_pc
       ELSE /\ build_pc' = "done"
            /\ UNCHANGED build_level
    /\ build_index' = 1
    /\ UNCHANGED << buildTree, buildRefs, schemas, build_order, stats, built >>
    /\ UNCHANGED notBuild

NextBuild ==
    \/ ScanLevel
    \/ BuildSchema
    \/ FinishLevel

SpecBuild == InitBuild /\ [][NextBuild]_vars

(***************************************************************************)
(* find_snippet_references (analyze_snippet_usage_updated.py lines 24-71). *)
(* A location is the sequence of the keys and list positions that lead to  *)
(* the $ref.                                                               *)
(***************************************************************************)
\* word in value, for a word without "/"
ValueHas(value, word) == \E i \in 1..Len(value) : SegmentHas(value[i], word)

\* "/fields/" in value, "/types/" in value
ValueHasDir(value, dir) == \E i \in 2..(Len(value) - 1) : value[i] = dir

\* value.startswith("./") or value.startswith("../")
StartsRelative(value) == Len(value) >= 2 /\ value[1] \in {".", ".."}

\* Path(value).stem
Stem(value) == (CHOOSE p \in StemPool : p[1] = value[Len(value)])[2]

\* the snippet file record of a path below schemas/
AsSnippet(filepath) ==
    [dirs |-> SubSeq(filepath, 1, Len(filepath) - 1), stem |-> filepath[Len(filepath)]]

\* lines 40-61: the records appended for one string-valued $ref
SnippetRefAnyFile(value, current_path, filepath) ==
    IF ValueHas(value, "snippets")
    THEN << [snippet |-> Stem(value), path |-> value, location |-> current_path,
             category |-> IF ValueHasDir(value, "fields") THEN "field"
                          ELSE IF ValueHasDir(value, "types") THEN "type"
                          ELSE "other"] >>
    ELSE IF StartsRelative(value)
    THEN << [snippet |-> Stem(value), path |-> value, location |-> current_path,
             category |-> PathCategory(AsSnippet(filepath))] >>
    ELSE << >>

SnippetRef(value, current_path, filepath) ==
    IF ValueHas(value, "snippets")
    THEN << [snippet |-> Stem(value), path |-> value, location |-> current_path,
             category |-> IF ValueHasDir(value, "fields") THEN "field"
                          ELSE IF ValueHasDir(value, "types") THEN "type"
                          ELSE "other"] >>
    ELSE IF PathHas(filepath, "snippets") /\ StartsRelative(value)
    THEN << [snippet |-> Stem(value), path |-> value, location |-> current_path,
             category |-> PathCategory(AsSnippet(filepath))] >>
    ELSE << >>

\* extract_refs, lines 31-66: the dict loop and the list loop
RECURSIVE extract_refs(_, _, _)
RECURSIVE ExtractItems(_, _, _, _)
RECURSIVE ExtractList(_, _, _, _)
extract_refs(obj, path, filepath) ==
    IF obj.kind = "dict" THEN ExtractItems(obj.items, 1, path, filepath)
    ELSE IF obj.kind = "list" THEN ExtractList(obj.items, 1, path, filepath)
    ELSE << >>

ExtractItems(items, i, path, filepath) ==
    IF i > Len(items) THEN << >>
    ELSE LET key == items[i][1]
             value == items[i][2]
             current_path == Append(path, key)
         IN (IF key = "$ref" /\ value.kind = "str"
             THEN SnippetRef(value.text, current_path, filepath)
             ELSE << >>)
            \o extract_refs(value, current_path, filepath)
            \o ExtractItems(items, i + 1, path, filepath)

ExtractList(items, i, path, filepath) ==
    IF i > Len(items) THEN << >>
    ELSE extract_refs(items[i], Append(path, IndexPool[i]), filepath)
         \o ExtractList(items, i + 1, path, filepath)

\* "if schema_content:" and "if content:": an empty dict or list is falsy
Truthy(content) == content.kind \in {"dict", "list"} => content.items # << >>

find_snippet_references(schema_content, filepath) ==
    IF Truthy(schema_content) THEN extract_refs(schema_content, << >>, filepath)
    ELSE << >>

(***************************************************************************)
(* The loops of build_snippet_dependency_graph (lines 83-100) and of       *)
(* analyze_schemas (lines 233-249) over the files, one file per step, in   *)
(* the order the directory scan yields them, then the closures and         *)
(* generate_report.  Every file of these runs loads.                       *)
(***************************************************************************)
\* ref['snippet'] for ref in refs: lines 99-100 and 243-244
RefSnippetsOfTypes(found) ==
    { found[i].snippet : i \in { j \in DOMAIN found : found[j].category = "type" } }

RefSnippets(found) == { found[i].snippet : i \in DOMAIN found }

\* lines 245-250: the usage sites of one source schema are appended
RECURSIVE AddUsageFirstOnly(_, _, _, _)
AddUsageFirstOnly(usage, file, found, i) ==
    IF i > Len(found) THEN usage
    ELSE IF found[i].snippet \in DOMAIN usage
         THEN AddUsageFirstOnly(usage, file, found, i + 1)
         ELSE AddUsageFirstOnly(
                  Put(usage, found[i].snippet,
                      << [file |-> file, location |-> found[i].location,
                          path |-> found[i].path, category |-> found[i].category] >>),
                  file, found, i + 1)

RECURSIVE AddUsage(_, _, _, _)
AddUsage(usage, file, found, i) ==
    IF i > Len(found) THEN usage
    ELSE AddUsage(Put(usage, found[i].snippet,
                      Append(Get(usage, found[i].snippet, << >>),
                             [file |-> file, location |-> found[i].location,
                              path |-> found[i].path, category |-> found[i].category])),
                  file, found, i + 1)

\* the content of a file
Content(f) == DocPool[docContent[f]]

\* the files the two loops go over
SnippetFiles == RglobSnippets(docTree)

SourceFiles == SourceFilter(docTree)

InitDocs ==
    /\ docTree \in { t \in SUBSET DocPathPool : Cardinality(t) <= MaxDocFiles }
    /\ docContent \in [SnippetFiles \cup SourceFiles -> DOMAIN DocPool]
    /\ doc_order = << >>
    /\ an_pc = "graph"
    /\ found_refs = << >>
    /\ snippet_usage = EmptyDict
    /\ total_snippet_references = 0
    /\ report = "none"
    /\ AnalyzerIdle
    /\ ScanIdle
    /\ RunnerIdle
    /\ BuildIdle
    /\ FixIdle

\* the analyzer variables a step of the loops leaves alone
loopFrame == << snippetTree, snippetRefs, sourceRefs, used_snippets,
                transitive_types, changed, all_used_snippets, all_reachable,
                transitive_field_issues, orphaned_snippets, type_passes,
                field_passes, loadVars, mainVars >>

\* lines 83-100 for one snippet file
GraphSnippetFile ==
    /\ an_pc = "graph"
    /\ \E f \in SnippetFiles \ Range(doc_order) :
         LET snippet_file == AsSnippet(f)
             found == find_snippet_references(Content(f), f)
             g == ScanSnippetFile([files |-> all_snippets, cats |-> snippet_categories,
                                   deps |-> snippet_deps],
                                  snippet_file,
                                  [x \in {snippet_file} |-> RefSnippets(found)])
         IN /\ snippet_deps' = g.deps
            /\ snippet_categories' = g.cats
            /\ all_snippets' = g.files
            /\ found_refs' = IF Truthy(Content(f)) THEN found ELSE found_refs
            /\ doc_order' = Append(doc_order, f)
    /\ UNCHANGED << docTree, docContent, an_pc, snippet_usage,
                    total_snippet_references, report >>
    /\ UNCHANGED << pc, direct_used_snippets, loopFrame >>
    /\ UNCHANGED << scanVars, runnerVars, buildVars, fixVars >>

\* lines 79-80 and 102, 216-231: the graph is returned, for a snippets root
\* that is missing as for one without files, and the source schemas are
\* listed; without source schemas the loop of line 233 is left at once
FindSources ==
    /\ an_pc = "graph"
    /\ SnippetFiles \subseteq Range(doc_order)
    /\ an_pc' = "sources"
    /\ pc' = IF SourceFiles = {} THEN "type_call" ELSE pc
    /\ UNCHANGED << docTree, docContent, doc_order, found_refs, snippet_usage,
                    total_snippet_references, report >>
    /\ UNCHANGED << snippet_deps, snippet_categories, all_snippets,
                    direct_used_snippets, loopFrame >>
    /\ UNCHANGED << scanVars, runnerVars, buildVars, fixVars >>

\* lines 233-260 for one source schema
CollectSourceFile ==
    /\ an_pc = "sources"
    /\ \E f \in SourceFiles \ Range(doc_order) :
         LET found == find_snippet_references(Content(f), f) IN
           /\ IF Truthy(Content(f))
              THEN /\ found_refs' = found
                   /\ total_snippet_references' = total_snippet_references + Len(found)
                   /\ direct_used_snippets' = direct_used_snippets \cup RefSnippets(found)
                   /\ snippet_usage' = AddUsage(snippet_usage, f, found, 1)
              ELSE UNCHANGED << found_refs, total_snippet_references,
                                direct_used_snippets, snippet_usage >>
           /\ doc_order' = Append(doc_order, f)
           /\ pc' = IF SourceFiles \ Range(doc_order) = {f} THEN "type_call" ELSE pc
    /\ UNCHANGED << docTree, docContent, an_pc, report >>
    /\ UNCHANGED << snippet_deps, snippet_categories, all_snippets, loopFrame >>
    /\ UNCHANGED << scanVars, runnerVars, buildVars, fixVars >>

\* lines 277-298 and generate_report: line 556 divides the number of
\* references by the number of source schemas
GenerateReport ==
    /\ an_pc = "sources"
    /\ pc = "done"
    /\ IF Cardinality(SourceFiles) = 0
       THEN /\ report' = "ZeroDivisionError"
            /\ an_pc' = "raised"
       ELSE /\ report' = "returned"
            /\ an_pc' = "returned"
    /\ UNCHANGED << docTree, docContent, doc_order, found_refs, snippet_usage,
                    total_snippet_references >>
    /\ UNCHANGED analyzerVars
    /\ UNCHANGED << scanVars, runnerVars, buildVars, fixVars >>

NextDocs ==
    \/ GraphSnippetFile
    \/ FindSources
    \/ CollectSourceFile
    \/ TypeUsageCall
    \/ TypeUsagePass
    \/ FieldIssuesCall
    \/ FieldIssuesPass
    \/ Metrics
    \/ GenerateReport

SpecDocs == InitDocs /\ [][NextDocs]_vars

(***************************************************************************)
(* fix_schema_constraints.py: fix_enum_const_conflict.  The schema is a    *)
(* tree of objects of the interpreter: heap[id] is a dict (keys[i] maps to *)
(* the object kids[i]), a list (of the objects kids) or a leaf.            *)
(***************************************************************************)
\* the longest "allOf" list of an input document
MaxListItems == 2

\* the keys a schema node of an input document is drawn from, in file order
NodeKeys == << "type", "enum", "const" >>

\* a node with both keys, as a value nested in another node
ConflictNode ==
    JDict(<< <<"enum", JList(<< JStr("Focus"), JStr("Bond") >>)>>,
             <<"const", JStr("Bond")>> >>)

\* the value an input document gives a key; deep: dicts are nested in it
KeyValue(key, deep) ==
    CASE key = "type" -> JStr("string")
      [] key = "enum" -> IF deep
                         THEN JList(<< JStr("Focus"), ConflictNode >>)
                         ELSE JList(<< JStr("Focus"), JStr("Bond") >>)
      [] key = "const" -> IF deep THEN ConflictNode ELSE JStr("Bond")

RECURSIVE NodeItems(_, _, _)
\* the items of a schema node with the keys S, from NodeKeys[i] on
NodeItems(S, deep, i) ==
    IF i > Len(NodeKeys) THEN << >>
    ELSE (IF NodeKeys[i] \in S
          THEN << <<NodeKeys[i], KeyValue(NodeKeys[i], deep)>> >>
          ELSE << >>) \o NodeItems(S, deep, i + 1)

\* a schema node with the keys S, followed by the items extra
SchemaNode(S, deep, extra) == JDict(NodeItems(S, deep, 1) \o extra)

RECURSIVE Alternatives(_, _)
\* the nodes of an "allOf" list: one with the keys L[j] for every j from i on
Alternatives(L, i) ==
    IF i \notin DOMAIN L THEN << >>
    ELSE << SchemaNode(L[i], FALSE, << >>) >> \o Alternatives(L, i + 1)

\* an input document: a root node, a property and a list of alternatives
Document(S1, S2, L, deep) ==
    SchemaNode(S1, deep,
        << <<"properties", JDict(<< <<"kind", SchemaNode(S2, FALSE, << >>)>> >>)>>,
           <<"allOf", JList(Alternatives(L, 1))>> >>)

RECURSIVE Column(_, _, _)
\* the c-th components of the pairs items[i], items[i+1], ...
Column(items, c, i) ==
    IF i > Len(items) THEN << >>
    ELSE << items[i][c] >> \o Column(items, c, i + 1)

\* the keys and the values of a JSON value, position by position
ItemKeys(v) == IF v.kind = "dict" THEN Column(v.items, 1, 1) ELSE << >>

ItemValues(v) == IF v.kind = "dict" THEN Column(v.items, 2, 1) ELSE v.items

RECURSIVE Size(_)
RECURSIVE SizeFrom(_, _)
\* the number of objects json.load creates for the value v
Size(v) == 1 + SizeFrom(ItemValues(v), 1)

SizeFrom(vs, i) ==
    IF i > Len(vs) THEN 0 ELSE Size(vs[i]) + SizeFrom(vs, i + 1)

RECURSIVE Objects(_, _)
RECURSIVE KidObjects(_, _, _)
RECURSIVE KidIds(_, _, _)
\* the objects created for the value v when off objects exist: those of its
\* items in order, then the object of v itself
Objects(v, off) ==
    KidObjects(ItemValues(v), off, 1)
    \o << [ kind |-> v.kind, text |-> v.text, keys |-> ItemKeys(v),
            kids |-> KidIds(ItemValues(v), off, 1) ] >>

KidObjects(vs, off, i) ==
    IF i > Len(vs) THEN << >>
    ELSE Objects(vs[i], off) \o KidObjects(vs, off + Size(vs[i]), i + 1)

\* the ids of the objects of the items vs[i], vs[i+1], ...
KidIds(vs, off, i) ==
    IF i > Len(vs) THEN << >>
    ELSE << off + Size(vs[i]) >> \o KidIds(vs, off + Size(vs[i]), i + 1)

\* json.load: the objects of the document; the last one is the document's
json_load(v) == Objects(v, 0)

\* the copy is the object the caller passed
SameObject(h, id) == [ heap |-> h, id |-> id ]

\* copy.deepcopy: a new object for every object below id, which are all the
\* objects json.load created; the copy of the object o is o + Len(h)
deepcopy(h, id) ==
    [ heap |-> h \o [ o \in DOMAIN h |->
                        [ h[o] EXCEPT !.kids = [ j \in DOMAIN h[o].kids |->
                                                   h[o].kids[j] + Len(h) ] ] ],
      id |-> id + Len(h) ]

RECURSIVE Without(_, _, _, _)
\* the entries of s at the positions from i on where keys does not hold key
Without(keys, s, key, i) ==
    IF i > Len(keys) THEN << >>
    ELSE (IF keys[i] = key THEN << >> ELSE << s[i] >>)
         \o Without(keys, s, key, i + 1)

\* del obj[key]
DelKey(obj, key) ==
    [ obj EXCEPT !.keys = Without(obj.keys, obj.keys, key, 1),
                 !.kids = Without(obj.keys, obj.kids, key, 1) ]

\* 'enum' in obj and 'const' in obj, for a dict
EnumAndConst(obj) ==
    /\ obj.kind = "dict"
    /\ "enum" \in Range(obj.keys)
    /\ "const" \in Range(obj.keys)

RECURSIVE Deleted(_, _)
\* the objects fix_recursive(id) deletes 'enum' from: id if it has both keys,
\* and those of the visits of the values it holds after that
Deleted(h, id) ==
    LET obj == IF EnumAndConst(h[id]) THEN DelKey(h[id], "enum") ELSE h[id]
    IN  (IF EnumAndConst(h[id]) THEN { id } ELSE {})
        \cup UNION { Deleted(h, k) : k \in Range(obj.kids) }

\* fix_recursive: the heap after the visit of the object id
fix_recursive(h, id) ==
    [ o \in DOMAIN h |->
        IF o \in Deleted(h, id) THEN DelKey(h[o], "enum") ELSE h[o] ]

\* process_single_schema has loaded a document
InitFix ==
    /\ \E S1 \in SUBSET Range(NodeKeys), S2 \in SUBSET Range(NodeKeys),
          n \in 0..MaxListItems, deep \in BOOLEAN, listed \in BOOLEAN :
         \E L \in [ 1..n -> SUBSET Range(NodeKeys) ] :
            document = IF listed
                       THEN JList(<< Document(S1, S2, L, deep) >>)
                       ELSE Document(S1, S2, L, deep)
    /\ heap = json_load(document)
    /\ schema_obj = Len(heap)
    /\ fixed = 0
    /\ fix_pc = "call"
    /\ AnalyzerIdle
    /\ ScanIdle
    /\ RunnerIdle
    /\ BuildIdle
    /\ DocIdle

\* fix_enum_const_conflict(schema_obj)
FixEnumConstConflict ==
    /\ fix_pc = "call"
    /\ LET schema_copy == deepcopy(heap, schema_obj)
       IN  /\ heap' = fix_recursive(schema_copy.heap, schema_copy.id)
           /\ fixed' = schema_copy.id
    /\ fix_pc' = "returned"
    /\ UNCHANGED << document, schema_obj >>
    /\ UNCHANGED << analyzerVars, scanVars, runnerVars, buildVars, docVars >>

NextFix == FixEnumConstConflict

SpecFix == InitFix /\ [][NextFix]_vars

(***************************************************************************)
(* Definitions the properties are stated with.                             *)
(***************************************************************************)
\* the input as the file tree gives it
InputEdges == { <<p[1].stem, p[2]>> : p \in RefPairs(snippetTree, snippetRefs) }

InputDirect == UNION { sourceRefs[f] : f \in DOMAIN sourceRefs }

\* the snippets that reference v
Referencing(deps, v) == { u \in DOMAIN deps : v \in deps[u] }

\* the snippets referenced by a member of X
Succ(deps, X) == UNION { DepsGet(deps, u) : u \in X }

\* the least set that contains S and, with u, every type u references
TypeClosed(deps, cats, X) ==
    \A u \in X : \A v \in DepsGet(deps, u) : CatGet(cats, v) = "type" => v \in X

LeastTypeClosed(deps, cats, S) ==
    { v \in Names : \A X \in SUBSET Names :
                       (S \subseteq X /\ TypeClosed(deps, cats, X)) => v \in X }

\* the names reachable from a member of S by one or more references
ReachablePlus(deps, S) ==
    { v \in Names : \A X \in SUBSET Names :
                       (Succ(deps, S) \subseteq X /\ Succ(deps, X) \subseteq X) => v \in X }

\* find_transitive_type_usage has returned / find_transitive_field_issues has
TypeUsageReturned == pc \in {"field_call", "field_loop", "metrics", "done"}

FieldIssuesReturned == pc \in {"metrics", "done"}

(***************************************************************************)
(* C1: every directly used snippet is in allUsed, whatever its category    *)
(* and discovered or not: the used set of find_transitive_type_usage       *)
(* contains directlyUsed throughout its loop, and so does its result.      *)
(***************************************************************************)
DirectSubsetAllUsed ==
    /\ pc = "type_loop" => direct_used_snippets \subseteq used_snippets
    /\ TypeUsageReturned => direct_used_snippets \subseteq all_used_snippets

\* a run has ended whose directly used snippets include an undiscovered name
\* and a field
DirectSubsetAllUsedWitness ==
    /\ pc = "done"
    /\ \E d \in direct_used_snippets : d \notin all_snippets
    /\ \E d \in direct_used_snippets : CatGet(snippet_categories, d) = "field"

(***************************************************************************)
(* C2: transitiveFieldIssues and directlyUsed are disjoint: a field some   *)
(* source schema references directly is never flagged, even when a used    *)
(* snippet references it too.                                              *)
(***************************************************************************)
IssuesDisjointDirect ==
    pc \in {"field_loop", "metrics", "done"} =>
        transitive_field_issues \cap direct_used_snippets = {}

\* a run has ended in which a directly used field is also referenced by a
\* directly used snippet
IssuesDisjointDirectWitness ==
    /\ pc = "done"
    /\ \E f \in direct_used_snippets :
         /\ CatGet(snippet_categories, f) = "field"
         /\ \E u \in direct_used_snippets \ {f} : f \in DepsGet(snippet_deps, u)

(***************************************************************************)
(* C3: find_transitive_field_issues returns exactly the snippets of        *)
(* declared category field that are not directly used and are reachable    *)
(* from a directly used snippet by one or more references of any category. *)
(***************************************************************************)
IssuesExact ==
    FieldIssuesReturned =>
        transitive_field_issues =
            { v \in ReachablePlus(snippet_deps, direct_used_snippets) :
                /\ CatGet(snippet_categories, v) = "field"
                /\ v \notin direct_used_snippets }

\* a field referenced only by a transitively reached type has been flagged
IssuesExactWitness ==
    /\ pc = "done"
    /\ \E t \in transitive_types : \E f \in transitive_field_issues :
         Referencing(snippet_deps, f) = {t}

(***************************************************************************)
(* C4: allUsed is the least set that contains directlyUsed and is closed   *)
(* under "u in the set, u references v, v has declared category type";     *)
(* transitiveTypes is allUsed minus directlyUsed, all of category type.    *)
(***************************************************************************)
AllUsedLeast ==
    TypeUsageReturned =>
        /\ all_used_snippets =
             LeastTypeClosed(snippet_deps, snippet_categories, direct_used_snippets)
        /\ transitive_types = all_used_snippets \ direct_used_snippets
        /\ \A t \in transitive_types : CatGet(snippet_categories, t) = "type"

\* a type was reached through another transitively reached type
AllUsedLeastWitness ==
    /\ pc = "done"
    /\ \E t \in transitive_types : \E v \in transitive_types \ {t} :
         /\ v \in DepsGet(snippet_deps, t)
         /\ Referencing(snippet_deps, v) = {t}

(***************************************************************************)
(* C5: when a used snippet a references a type b and a non-type c that is  *)
(* not directly used, b is in allUsed, c is not, and a type referenced     *)
(* only by c (by no other snippet and by no source schema) is not either.  *)
(***************************************************************************)
CategoryRestricted ==
    pc = "done" =>
        \A a \in all_used_snippets :
          \A b \in DepsGet(snippet_deps, a) : \A c \in DepsGet(snippet_deps, a) :
            ( /\ CatGet(snippet_categories, b) = "type"
              /\ CatGet(snippet_categories, c) # "type"
              /\ c \notin direct_used_snippets )
            => /\ b \in all_used_snippets
               /\ c \notin all_used_snippets
               /\ \A d \in Names :
                    ( /\ CatGet(snippet_categories, d) = "type"
                      /\ Referencing(snippet_deps, d) = {c}
                      /\ d \notin direct_used_snippets )
                    => d \notin all_used_snippets

\* a run has ended in which a used snippet references a type and an unused
\* field, and that field is the only one to reference a further type
CategoryRestrictedWitness ==
    /\ pc = "done"
    /\ \E a \in all_used_snippets :
         \E b \in DepsGet(snippet_deps, a) : \E c \in DepsGet(snippet_deps, a) :
           /\ CatGet(snippet_categories, b) = "type"
           /\ CatGet(snippet_categories, c) = "field"
           /\ c \notin direct_used_snippets
           /\ \E d \in Names :
                /\ CatGet(snippet_categories, d) = "type"
                /\ Referencing(snippet_deps, d) = {c}
                /\ d \notin direct_used_snippets

(***************************************************************************)
(* C6: a field flagged in transitiveFieldIssues is counted as used for     *)
(* orphan purposes: transitiveFieldIssues and orphaned are disjoint.       *)
(***************************************************************************)
IssuesNotOrphaned ==
    pc = "done" => transitive_field_issues \cap orphaned_snippets = {}

(***************************************************************************)
(* C7: orphaned is exactly allSnippets minus allUsed, and a discovered     *)
(* snippet that no source schema references and no reachable snippet (a    *)
(* fortiori: no used snippet) references is orphaned.                      *)
(***************************************************************************)
OrphanedExact ==
    pc = "done" =>
        /\ orphaned_snippets = { s \in all_snippets : s \notin all_used_snippets }
        /\ \A s \in all_snippets :
             ( /\ s \notin direct_used_snippets
               /\ ( \/ \A u \in all_used_snippets : s \notin DepsGet(snippet_deps, u)
                    \/ \A u \in all_reachable : s \notin DepsGet(snippet_deps, u) ) )
             => s \in orphaned_snippets

\* a run has ended with an orphan nothing references, beside used snippets
OrphanedExactWitness ==
    /\ pc = "done"
    /\ all_used_snippets \cap all_snippets # {}
    /\ \E s \in orphaned_snippets :
         /\ Referencing(snippet_deps, s) = {}
         /\ s \notin direct_used_snippets

(***************************************************************************)
(* C8: on the cycle A -> B -> A with only A directly used, both loops      *)
(* terminate.  As stated: both closures are {A, B}.  As amended: the       *)
(* unrestricted reachable set is {A, B}, and allUsed is {A, B} when B has  *)
(* declared category type and {A} otherwise.                               *)
(***************************************************************************)
CycleInput ==
    /\ InputEdges = { <<"A", "B">>, <<"B", "A">> }
    /\ InputDirect = {"A"}

\* the claim as stated
CycleClosureBoth ==
    (CycleInput /\ pc = "done") =>
        /\ all_used_snippets = {"A", "B"}
        /\ all_reachable = {"A", "B"}

\* the claim as amended
CycleClosure ==
    CycleInput =>
        /\ pc = "done" \/ ENABLED Next
        /\ type_passes <= 2
        /\ field_passes <= 2
        /\ pc = "done" =>
             /\ all_reachable = {"A", "B"}
             /\ all_used_snippets =
                  IF CatGet(snippet_categories, "B") = "type"
                  THEN {"A", "B"} ELSE {"A"}

\* the run on the cycle has ended, with B a type
CycleClosureWitness ==
    /\ CycleInput
    /\ pc = "done"
    /\ CatGet(snippet_categories, "B") = "type"
    /\ type_passes = 2
    /\ field_passes = 2

(***************************************************************************)
(* C9: for a fixed file tree the result sets are the same for every order  *)
(* in which the snippet files are scanned (and every order of the passes): *)
(* the sets of a finished run are those any scan order of the tree gives.  *)
(***************************************************************************)
ResultSets(g, direct) ==
    LET used == LeastTypeClosed(g.deps, g.cats, direct) IN
      [ directlyUsed |-> direct,
        allUsed |-> used,
        transitiveTypes |-> used \ direct,
        transitiveFieldIssues |->
            { v \in ReachablePlus(g.deps, direct) :
                CatGet(g.cats, v) = "field" /\ v \notin direct },
        orphaned |-> g.files \ used ]

OrderIndependent ==
    pc = "done" =>
        \A order \in Orders(snippetTree) :
            ResultSets(ScanSnippets(EmptyGraph, order, 1, snippetRefs), InputDirect)
              = [ directlyUsed |-> direct_used_snippets,
                  allUsed |-> all_used_snippets,
                  transitiveTypes |-> transitive_types,
                  transitiveFieldIssues |-> transitive_field_issues,
                  orphaned |-> orphaned_snippets ]

(***************************************************************************)
(* C10: the example scenario.  Snippets A (type, references B), B (type),  *)
(* F (field), G (field), one source schema referencing A and G: the run    *)
(* yields directlyUsed {A, G}, transitiveTypes {B}, allUsed {A, B, G},     *)
(* no transitive field issue and orphaned {F}.                             *)
(***************************************************************************)
ExampleInput ==
    /\ snippetTree = { [dirs |-> <<"types">>,  stem |-> "A"],
                       [dirs |-> <<"types">>,  stem |-> "B"],
                       [dirs |-> <<"fields">>, stem |-> "F"],
                       [dirs |-> <<"fields">>, stem |-> "G"] }
    /\ InputEdges = { <<"A", "B">> }
    /\ sourceRefs["entities/Thing"] = {"A", "G"}
    /\ sourceRefs["events/Happening"] = {}

ExampleScenario ==
    (ExampleInput /\ pc = "done") =>
        /\ direct_used_snippets = {"A", "G"}
        /\ transitive_types = {"B"}
        /\ all_used_snippets = {"A", "B", "G"}
        /\ transitive_field_issues = {}
        /\ orphaned_snippets = {"F"}

\* the run on the example has ended
ExampleScenarioWitness == ExampleInput /\ pc = "done"

(***************************************************************************)
(* C11: a name referenced by a snippet for which no snippet file was       *)
(* discovered is harmless in both closures: the run never stops on it, the *)
(* name has no entry to expand, it is never recorded in transitiveTypes or *)
(* transitiveFieldIssues, and the closure never adds it to the used set    *)
(* (it is in allUsed only when a source schema references it directly).    *)
(***************************************************************************)
\* the names some snippet references and no discovered file has
Dangling == { v \in Names : v \notin all_snippets /\ Referencing(snippet_deps, v) # {} }

DanglingHarmless ==
    /\ pc = "done" \/ ENABLED Next
    /\ pc # "build" =>
         \A v \in Dangling :
           /\ DepsGet(snippet_deps, v) = {}
           /\ v \notin DOMAIN snippet_categories
           /\ v \notin transitive_types
           /\ v \notin transitive_field_issues
           /\ v \in used_snippets => v \in direct_used_snippets
           /\ v \in all_used_snippets => v \in direct_used_snippets

\* a run has ended in which a used snippet references an undiscovered name
\* that no source schema references, and the unrestricted closure reached it
DanglingHarmlessWitness ==
    /\ pc = "done"
    /\ \E v \in Dangling :
         /\ v \notin direct_used_snippets
         /\ v \in all_reachable
         /\ \E u \in all_used_snippets : v \in DepsGet(snippet_deps, u)

(***************************************************************************)
(* C20: both fixed-point loops terminate, cycles and self-references       *)
(* included: every pass but the last adds at least one new snippet, so the *)
(* passes of a loop number at most the snippets it added plus one, which   *)
(* is at most the number of snippet names plus one.                        *)
(***************************************************************************)
PassesBounded ==
    /\ pc = "done" \/ ENABLED Next
    /\ pc = "type_loop" =>
         type_passes <= Cardinality(used_snippets \ direct_used_snippets)
    /\ TypeUsageReturned =>
         /\ type_passes <= Cardinality(all_used_snippets \ direct_used_snippets) + 1
         /\ type_passes <= Cardinality(Names) + 1
    /\ pc = "field_loop" =>
         field_passes <= Cardinality(all_reachable \ direct_used_snippets)
    /\ FieldIssuesReturned =>
         /\ field_passes <= Cardinality(all_reachable \ direct_used_snippets) + 1
         /\ field_passes <= Cardinality(Names) + 1

\* a run has ended whose loops went through a self-reference and a cycle and
\* took more than one pass to add their snippets
PassesBoundedWitness ==
    /\ pc = "done"
    /\ \E s \in all_used_snippets : s \in DepsGet(snippet_deps, s)
    /\ \E s \in all_used_snippets : \E t \in all_used_snippets \ {s} :
         s \in DepsGet(snippet_deps, t) /\ t \in DepsGet(snippet_deps, s)
    /\ type_passes >= 2
    /\ field_passes >= 2

(***************************************************************************)
(* C12: files under an assembled/ directory are scanned neither as         *)
(* snippets nor as source schemas; the source schemas are exactly the      *)
(* *.json files of the schemas root that are under neither a snippets      *)
(* directory nor an assembled directory; no file is scanned as both.       *)
(***************************************************************************)
\* the file is below a directory of that name
UnderDir(path, dir) == \E i \in 1..(Len(path) - 1) : path[i] = dir

AssembledExcluded ==
    scan_pc = "done" =>
        /\ \A f \in scanned_snippets \cup source_schemas : ~UnderDir(f, "assembled")
        /\ source_schemas =
             { f \in schemaTree : ~UnderDir(f, "snippets") /\ ~UnderDir(f, "assembled") }
        /\ scanned_snippets \cap source_schemas = {}

(***************************************************************************)
(* C13: an error reading or parsing one snippet or source file never ends  *)
(* the run: whatever loading the files does, no exception leaves           *)
(* analyze_schemas.                                                        *)
(***************************************************************************)
LoadErrorsNotFatal == failure # "analysis"

(***************************************************************************)
(* C14: when an exception leaves analyze_schemas, the script logs it, ends *)
(* with a status other than 0, and leaves no partially written report.     *)
(***************************************************************************)
FailureSignalled ==
    (pc = "exit" /\ failure = "analysis") =>
        /\ logged
        /\ exit_status # 0
        /\ report_file \in {"absent", "complete"}

(***************************************************************************)
(* C15: for every input that validates as ConciergeInput and whose state   *)
(* validates, main returns a result with a non-empty state, response and   *)
(* agent and the keys thinking_steps, tool_calls and weave_result, with    *)
(* LlamaIndex importable or not (the flag on, the imports of the pipeline  *)
(* and the API call not failing).                                          *)
(***************************************************************************)
ValidInput ==
    /\ flag_enabled
    /\ input.has_state
    /\ input.has_request_id
    /\ input.state.has_tenant_id

\* main has returned a result that is no error envelope
ReturnedResult == run_pc = "returned" /\ "error" \notin DOMAIN result

RunnerContract ==
    (run_pc # "idle" /\ ValidInput /\ raised \notin {"ImportError", "APIError"}) =>
        /\ run_pc # "raised"
        /\ run_pc = "returned" =>
             /\ { "state", "response", "agent", "thinking_steps", "tool_calls",
                  "weave_result" } \subseteq DOMAIN result
             /\ DOMAIN result.state # {}
             /\ result.response.text # "" \/ result.response.said # {}
             /\ result.agent # ""

(***************************************************************************)
(* C16: in every completed run of the pipeline the thinking steps are in   *)
(* pipeline order: at least two steps, the first by gate, the second by    *)
(* morta, every step by one of gate, morta, decima, nona, the last by      *)
(* nona, and the returned agent is nona.                                   *)
(***************************************************************************)
FatesAgents == {"gate", "morta", "decima", "nona"}

PipelineOrder(steps, agent) ==
    /\ Len(steps) >= 2
    /\ steps[1].agent = "gate"
    /\ steps[2].agent = "morta"
    /\ \A i \in DOMAIN steps : steps[i].agent \in FatesAgents
    /\ steps[Len(steps)].agent = "nona"
    /\ agent = "nona"

StepsInOrder ==
    /\ run_pc = "finish" =>
         PipelineOrder(pipeline_result.thinking_steps, pipeline_result.agent)
    /\ ReturnedResult => PipelineOrder(result.thinking_steps, result.agent)
    /\ run_pc \in {"branch", "history"} =>
         /\ thinking_steps[1].agent = "gate"
         /\ thinking_steps[2].agent = "morta"
         /\ \A i \in DOMAIN thinking_steps : thinking_steps[i].agent \in FatesAgents

\* main has returned the three steps of a run in which Morta segments
StepsInOrderWitness ==
    /\ ReturnedResult
    /\ Len(result.thinking_steps) = 3
    /\ result.thinking_steps[2].thought = "Segmenting content"

(***************************************************************************)
(* C17: the intent in the weave_result main returns is the one Gate        *)
(* assigns to the user message: QUERY if a query pattern occurs in it;     *)
(* otherwise COMMAND if a command pattern occurs; otherwise LOG if a       *)
(* logging pattern occurs; otherwise QUERY.                                *)
(***************************************************************************)
IntentIsGates ==
    ReturnedResult =>
        LET q == AnyIn(QueryPatterns, user_message)
            c == AnyIn(CommandPatterns, user_message)
            l == AnyIn(LogPatterns, user_message)
            i == result.weave_result.intent
        IN /\ q => i = "QUERY"
           /\ (~q /\ c) => i = "COMMAND"
           /\ (~q /\ ~c /\ l) => i = "LOG"
           /\ (~q /\ ~c /\ ~l) => i = "QUERY"

\* main has returned LOG for a journal entry typed with capitals
IntentIsGatesWitness ==
    /\ ReturnedResult
    /\ user_message = {"Yesterday", "I went"}
    /\ result.weave_result.intent = "LOG"

RefTarget(r) == { n \in DOMAIN schemas : schemas[n].path.file = r }

BuiltAfterDependencies ==
    /\ \A i \in DOMAIN built : \A j \in DOMAIN built :
         i < j => schemas[built[i]].level <= schemas[built[j]].level
    /\ \A i \in DOMAIN built :
         \A r \in buildRefs[schemas[built[i]].path] :
           \A t \in RefTarget(r) \ {built[i]} :
             /\ schemas[t].level <= schemas[built[i]].level
             /\ \E j \in 1..(i - 1) : built[j] = t

(***************************************************************************)
(* C21: find_snippet_references records a string-valued $ref exactly when *)
(* the string contains "snippets", or the file lies under a snippets       *)
(* directory and the string starts with "./" or "../"; a relative $ref of  *)
(* a source schema, any other string and a $ref that is no string give no  *)
(* record.                                                                 *)
(***************************************************************************)
\* the string-valued $refs of a JSON value: <<location, string>>
RECURSIVE RefOccurrences(_, _)
RefOccurrences(obj, path) ==
    IF obj.kind = "dict"
    THEN UNION { (IF obj.items[i][1] = "$ref" /\ obj.items[i][2].kind = "str"
                  THEN { <<Append(path, "$ref"), obj.items[i][2].text>> }
                  ELSE {})
                 \cup RefOccurrences(obj.items[i][2], Append(path, obj.items[i][1]))
                 : i \in DOMAIN obj.items }
    ELSE IF obj.kind = "list"
    THEN UNION { RefOccurrences(obj.items[i], Append(path, IndexPool[i]))
                 : i \in DOMAIN obj.items }
    ELSE {}

\* the file the loops took last
LastFile == doc_order[Len(doc_order)]

RecognitionRule ==
    (doc_order # << >> /\ Truthy(Content(LastFile))) =>
        LET rule == { o \in RefOccurrences(Content(LastFile), << >>) :
                        \/ ValueHas(o[2], "snippets")
                        \/ UnderDir(LastFile, "snippets") /\ StartsRelative(o[2]) }
        IN /\ { <<found_refs[i].location, found_refs[i].path>> :
                  i \in DOMAIN found_refs } = rule
           /\ Len(found_refs) = Cardinality(rule)

\* a source schema whose only $refs are a relative one and an internal one
\* was scanned after a snippet file, and gave no record
RecognitionRuleWitness ==
    /\ Len(doc_order) = 2
    /\ doc_order[1] = <<"snippets", "types", "A">>
    /\ LastFile = <<"entities", "Thing">>
    /\ docContent[LastFile] = 3
    /\ docContent[doc_order[1]] = 3
    /\ found_refs = << >>
    /\ snippet_deps = [x \in {"A"} |-> {"B"}]

(***************************************************************************)
(* C22: a snippet file that cannot be loaded or parsed is still registered *)
(* in allSnippets with the category of its path, has no outgoing edge in   *)
(* the dependency graph, and is in orphaned when nothing uses it: so the   *)
(* run has left it once the script ends.                                   *)
(***************************************************************************)
UnloadableRegistered ==
    pc = "exit" =>
        \A f \in snippetTree :
            snippetLoad[f] # "ok" =>
                /\ f.stem \in all_snippets
                /\ CatGet(snippet_categories, f.stem) = PathCategory(f)
                /\ DepsGet(snippet_deps, f.stem) = {}
                /\ f.stem \notin all_used_snippets => f.stem \in orphaned_snippets

(***************************************************************************)
(* C23: the closures use the category a snippet's path declares, never the *)
(* category the extractor attaches to a reference: a run whose references  *)
(* carry other categories, the input being the same otherwise, yields the  *)
(* same directlyUsed, allUsed, transitiveTypes, transitiveFieldIssues and  *)
(* orphaned.                                                               *)
(***************************************************************************)
Categories == {"field", "type", "other"}

\* the records with the categories replaced
Recategorised(found, k) ==
    [i \in DOMAIN found |-> [found[i] EXCEPT !.category = k[found[i].category]]]

\* the graph and the directly used names of the run that takes the files in
\* the same order and finds the references of the files in F recategorised
\* (F is one file or every file)
RECURSIVE SecondRun(_, _, _, _)
SecondRun(st, i, F, k) ==
    IF i > Len(doc_order) THEN st
    ELSE LET f == doc_order[i]
             first == find_snippet_references(Content(f), f)
             found == IF f \in F THEN Recategorised(first, k) ELSE first
         IN SecondRun(
                IF f \in SnippetFiles
                THEN [st EXCEPT !.g = ScanSnippetFile(st.g, AsSnippet(f),
                                          [x \in {AsSnippet(f)} |-> RefSnippets(found)])]
                ELSE IF Truthy(Content(f))
                THEN [st EXCEPT !.direct = st.direct \cup RefSnippets(found)]
                ELSE st,
                i + 1, F, k)

\* the result sets the run has bound
RunResults ==
    [ directlyUsed |-> direct_used_snippets,
      allUsed |-> all_used_snippets,
      transitiveTypes |-> transitive_types,
      transitiveFieldIssues |-> transitive_field_issues,
      orphaned |-> orphaned_snippets ]

\* a second run that reaches the closures with the graph and the directly
\* used names of the first has its result sets
ReferenceCategoryIgnored ==
    (pc = "done" /\ an_pc = "sources") =>
        LET first == SecondRun([g |-> EmptyGraph, direct |-> {}], 1, {}, 
                               [c \in Categories |-> c]) IN
          /\ ResultSets(first.g, first.direct) = RunResults
          /\ \A k \in [Categories -> Categories] :
              \A F \in { {f} : f \in Range(doc_order) } \cup { Range(doc_order) } :
                LET second == SecondRun([g |-> EmptyGraph, direct |-> {}], 1, F, k) IN
                  \/ second = first
                  \/ ResultSets(second.g, second.direct) = RunResults

\* the type A references the field F twice, once with the category "field"
\* and once, by a relative path, with the category "type" of A's own path;
\* A is directly used, and F is a transitive field issue and is not used
ReferenceCategoryIgnoredWitness ==
    /\ pc = "done"
    /\ docTree = { <<"snippets", "types", "A">>, <<"snippets", "fields", "F">>,
                   <<"entities", "Thing">> }
    /\ docContent[<<"snippets", "types", "A">>] = 4
    /\ docContent[<<"entities", "Thing">>] = 2
    /\ all_used_snippets = {"A"}
    /\ transitive_field_issues = {"F"}
    /\ orphaned_snippets = {"F"}

(***************************************************************************)
(* C24: directlyUsed is the union, over the source schemas taken so far,   *)
(* of the snippet names the extractor returns for them; the keys of the    *)
(* usage-site map are exactly directlyUsed; and the total reference count  *)
(* is the sum of the lengths of the usage-site lists.                      *)
(***************************************************************************)
\* the sum of the lengths of the lists of a map, over the keys S
RECURSIVE SumOfLengths(_, _)
SumOfLengths(usage, S) ==
    IF S = {} THEN 0
    ELSE LET n == CHOOSE x \in S : TRUE IN
           Len(usage[n]) + SumOfLengths(usage, S \ {n})

UsageAccounts ==
    /\ direct_used_snippets =
         UNION { { r.snippet : r \in Range(find_snippet_references(Content(f), f)) }
                 : f \in Range(doc_order) \cap SourceFiles }
    /\ DOMAIN snippet_usage = direct_used_snippets
    /\ total_snippet_references = SumOfLengths(snippet_usage, DOMAIN snippet_usage)

\* two source schemas reference A, one of them twice, and one references G
UsageAccountsWitness ==
    /\ docContent = [f \in { <<"entities", "Thing">>, <<"Root">> } |->
                       IF f = <<"Root">> THEN 7 ELSE 2]
    /\ Len(doc_order) = 2
    /\ total_snippet_references = 3
    /\ direct_used_snippets = {"A"}
    /\ Len(snippet_usage["A"]) = 3

(***************************************************************************)
(* C25: analyze_schemas returns a report for every input tree, also for a  *)
(* tree without snippets and for a tree without source schemas: once       *)
(* generate_report has been called it has returned the report.             *)
(***************************************************************************)
ReportForEveryTree ==
    (pc = "done" /\ an_pc # "sources") => (an_pc = "returned" /\ report = "returned")

(***************************************************************************)
(* C26: every name in allUsed is a discovered snippet, so the number of    *)
(* orphaned snippets is |allSnippets| - |allUsed| and the usage rate       *)
(* 100 * |allUsed| / |allSnippets| (0 without snippets) is at most 100.    *)
(***************************************************************************)
\* line 275, in whole percent
UsageRate ==
    IF all_snippets # {}
    THEN (100 * Cardinality(all_used_snippets)) \div Cardinality(all_snippets)
    ELSE 0

AllUsedDiscovered ==
    pc = "done" =>
        /\ all_used_snippets \subseteq all_snippets
        /\ Cardinality(orphaned_snippets) =
             Cardinality(all_snippets) - Cardinality(all_used_snippets)
        /\ UsageRate <= 100

(***************************************************************************)
(* C27: after a call of main that returns a result, the conversation of    *)
(* the returned state is the conversation of the input followed by one     *)
(* user turn with the user message and one assistant turn with the         *)
(* response, the earlier turns are as they were, just_finished is true and *)
(* current_speaker is None.  The history handed to the pipeline is the     *)
(* conversation before the user turn was added, so the messages handed to  *)
(* the model hold the current message once, after the history.             *)
(***************************************************************************)
\* the conversation the input state arrives with, and the message
InputContext == input.state.conversation_context

InputMessage == IF input.has_message THEN input.user_message ELSE {}

ConversationRecorded ==
    /\ ReturnedResult =>
         LET out == result.state.conversation_context
             n == Len(InputContext)
         IN /\ Len(out) = n + 2
            /\ SubSeq(out, 1, n) = InputContext
            /\ out[n + 1].role = "user"
            /\ out[n + 1].content = InputMessage
            /\ out[n + 2].role = "assistant"
            /\ out[n + 2].content = result.response
            /\ result.state.just_finished
            /\ result.state.current_speaker = None
    /\ (run_pc \in {"gate", "morta", "branch", "history", "finish"} \/ ReturnedResult) =>
         /\ Len(conversation_context) = Len(InputContext)
         /\ \A i \in DOMAIN conversation_context :
              /\ conversation_context[i].role = InputContext[i].role
              /\ conversation_context[i].content = InputContext[i].content
    /\ messages # << >> =>
         /\ Len(messages) = Len(InputContext) + 1
         /\ \A i \in DOMAIN InputContext :
              messages[i] = [role |-> InputContext[i].role,
                             content |-> InputContext[i].content]
         /\ messages[Len(messages)] = [role |-> "user", content |-> InputMessage]

\* main has returned for a state that came with two turns
ConversationRecordedWitness ==
    /\ ReturnedResult
    /\ Len(InputContext) = 2
    /\ InputMessage = {"What", "?"}
    /\ Len(result.state.conversation_context) = 4

(***************************************************************************)
(* C28: main reports a rejected request as an error envelope and does not  *)
(* raise: AGENT_DISABLED with the flag off, VALIDATION_ERROR for an        *)
(* invalid input, a state that is no AgentState included; the pipeline is  *)
(* not run and no turn is added.                                           *)
(***************************************************************************)
RejectedAsEnvelope ==
    (run_pc \in {"returned", "raised"} /\ ~ValidInput) =>
        /\ run_pc = "returned"
        /\ "error" \in DOMAIN result
        /\ result.error
        /\ result.code = IF flag_enabled THEN "VALIDATION_ERROR" ELSE "AGENT_DISABLED"
        /\ thinking_steps = << >>
        /\ state = EmptyDict

(***************************************************************************)
(* C29: a schema that fails to build never stops the build.  Every scanned *)
(* schema name is registered in exactly one level, the build goes through  *)
(* the six levels and ends only after the last, every registered name is   *)
(* attempted exactly once, and at the end stats.success + stats.failed =   *)
(* stats.total with success_by_level[l] <= by_level[l] for every level.    *)
(***************************************************************************)
\* the places of a name in build_order, and the attempts to build it
Registrations(n) ==
    { p \in UNION { { <<l, i>> : i \in DOMAIN build_order[l] } : l \in 1..6 } :
        build_order[p[1]][p[2]] = n }

Attempts(n) == { i \in DOMAIN built : built[i] = n }

BuildNeverStops ==
    /\ build_pc \in {"build", "done"} =>
         /\ DOMAIN schemas =
              { SchemaName(f.file) :
                  f \in UNION { LevelFiles(buildTree, l) : l \in 0..5 } }
         /\ \A n \in DOMAIN schemas : Cardinality(Registrations(n)) = 1
    /\ (build_pc # "idle" /\ ~ENABLED NextBuild) => build_pc = "done"
    /\ build_pc = "done" =>
         /\ build_level = 5
         /\ \A n \in DOMAIN schemas : Cardinality(Attempts(n)) = 1
         /\ Len(built) = stats.total
         /\ stats.success + stats.failed = stats.total
         /\ \A l \in 1..6 : stats.success_by_level[l] <= stats.by_level[l]

\* a schema of one level failed and a schema of a later level was built
BuildNeverStopsWitness ==
    /\ build_pc = "done"
    /\ stats.total = 3
    /\ stats.failed >= 1
    /\ \E l1 \in 1..6 : \E l2 \in 1..6 :
         /\ l1 < l2
         /\ stats.success_by_level[l1] < stats.by_level[l1]
         /\ stats.success_by_level[l2] >= 1

RECURSIVE Reify(_, _)
RECURSIVE ReifyItems(_, _, _)
\* the JSON value the object id stands for
Reify(h, id) ==
    LET obj == h[id]
    IN  [ kind |-> obj.kind, text |-> obj.text,
          items |-> ReifyItems(h, obj, 1) ]

\* the items of the value: pairs of key and value for a dict
ReifyItems(h, obj, i) ==
    IF i > Len(obj.kids) THEN << >>
    ELSE << IF obj.kind = "dict"
            THEN <<obj.keys[i], Reify(h, obj.kids[i])>>
            ELSE Reify(h, obj.kids[i]) >> \o ReifyItems(h, obj, i + 1)

\* the value is an object node with both 'enum' and 'const'
HasBoth(v) ==
    /\ v.kind = "dict"
    /\ "enum" \in Range(ItemKeys(v))
    /\ "const" \in Range(ItemKeys(v))

RECURSIVE NoConflict(_)
\* no node of the value, at any depth, has both keys
NoConflict(v) ==
    /\ ~HasBoth(v)
    /\ \A i \in DOMAIN v.items : NoConflict(ItemValues(v)[i])

RECURSIVE OnlyEnumRemoved(_, _)
\* out is v but for the 'enum' of the nodes that have both keys: such a node
\* keeps its other keys, 'const' among them, a node without both keeps them
\* all, and the values under the kept keys differ in that way only
OnlyEnumRemoved(v, out) ==
    LET kept == IF HasBoth(v)
                THEN SelectSeq(v.items, LAMBDA it : it[1] # "enum")
                ELSE v.items
    IN  /\ out.kind = v.kind
        /\ out.text = v.text
        /\ Len(out.items) = Len(kept)
        /\ \A i \in DOMAIN kept :
              IF v.kind = "dict"
              THEN /\ out.items[i][1] = kept[i][1]
                   /\ OnlyEnumRemoved(kept[i][2], out.items[i][2])
              ELSE OnlyEnumRemoved(kept[i], out.items[i])

\* C30: fix_enum_const_conflict changes nothing but the 'enum' of the nodes
\* that have both 'enum' and 'const': the returned schema has no node with
\* both keys at any depth, every such node keeps its 'const' value, all other
\* keys and values are as in the input, and the object passed in still stands
\* for the document that was loaded.
EnumConstFrame ==
    fix_pc = "returned" =>
        /\ NoConflict(Reify(heap, fixed))
        /\ OnlyEnumRemoved(document, Reify(heap, fixed))
        /\ Reify(heap, schema_obj) = document

\* a document with a conflict below the root, and one in a list, was fixed
EnumConstFrameWitness ==
    /\ fix_pc = "returned"
    /\ ~NoConflict(document)
    /\ ~HasBoth(document)
    /\ \E i \in DOMAIN document.items :
          /\ document.items[i][1] = "allOf"
          /\ \E j \in DOMAIN document.items[i][2].items :
                HasBoth(document.items[i][2].items[j])
    /\ Reify(heap, fixed) # document

====
